---- MODULE Spec2Model ----
(***************************************************************************)
(* A model of the PNG-layout PDF tool of aws-mahjong (png-layout-pdf-cli): *)
(* the document encoder PdfBuilder, the tile catalog (parseTileName,       *)
(* sortTileFiles, findPngFiles) and the layout pipeline createPdf.         *)
(*                                                                         *)
(* Bytes are modelled as the characters of TLA+ strings: a Buffer is a     *)
(* string, Buffer.length is Len, Buffer.concat is \o.  The byte 0xFF of    *)
(* the file header is written "#" (one character for one byte).            *)
(***************************************************************************)
EXTENDS Integers, Sequences, FiniteSets, TLC

VARIABLES
    \* ---- PdfBuilder (src/unnamed/part_005:59-118)
    objects,      \* PdfBuilder.objects: the registered bodies, in order
    lastId,       \* the id returned by the latest registration call (0: none)
    regCount,     \* how many registration calls were made
    output,       \* the Buffer returned by build for the current table ("" : none)
    rootArg,      \* the rootObjectId given to that build call (0: none)
    setLog,       \* the latest setObject call: <<id, body replaced, regCount then>>
    \* ---- tile catalog (src/unnamed/part_005:185-247)
    cstage,       \* "idle" | "input": arguments given | "done": result returned
    dirEntries,   \* findPngFiles: what fs.readdir returned, in its order
    files,        \* sortTileFiles: the list it is given
    catalog,      \* the list sortTileFiles / findPngFiles returned
    cmpArgs,      \* the sort comparator: three tile files a, b, c
    cmpRes,       \* its results <<cmp(a,b), cmp(b,a), cmp(b,c), cmp(a,c)>>
    \* ---- main and createPdf (src/unnamed/part_005:467-619)
    pc,           \* where the run stands
    tiles,        \* the catalog findPngFiles returned to main
    disk,         \* per catalog entry, what its file decodes to
    showGuides,   \* options.showGuides
    idx,          \* the tile loop: the next tile to embed (1-based)
    imageRefs,    \* createPdf.imageRefs
    pagesId,      \* createPdf.pagesId (0: not reserved yet)
    tilePages,    \* createPdf.tilePages
    pageIdx,      \* the page loop: the next page to emit (1-based)
    pageIds,      \* createPdf.pageIds
    pageLog,      \* per emitted page: its rows, commands, xObjectEntries, ids
    catalogId,    \* createPdf.catalogId (0: not registered yet)
    readLog,      \* the file paths read so far, in order
    streamIds,    \* the ids addStreamObject returned
    outFile,      \* the bytes written to the output file ("" : nothing written)
    \* ---- the PNG decoder (src/unnamed/part_005:261-457)
    dstage,       \* "idle" | "input": arguments given | "done": result returned
                  \* | "paeth", "paethDone": the same for paethPredictor alone
    source,       \* how the input was made: the image and what was done to its file
    png,          \* parsePng: the file it is given, a sequence of bytes
    decoded,      \* what parsePng returned or threw
    scanIn,       \* unfilterScanlines: its arguments
    scanOut,      \* what unfilterScanlines returned or threw
    \* ---- what surrounds a run of main
    content,      \* per file path of the input directory, what the file decodes to
    runNo,        \* which run of the tool on the directory this is (0: none)
    firstRun,     \* how the first run ended and what it wrote (<<>>: still running)
    \* ---- generateAll (src/src/generator.ts:587-757)
    gstage,       \* "idle" | "start" | "tiles": in the loop | "done"
    job,          \* the arguments of generateAll and how the file system answers
    genIdx,       \* the tile loop: the next entry of config.tiles (1-based)
    generated,    \* generateAll.generated
    failed,       \* generateAll.failed
    errors,       \* generateAll.errors: <<tileId, type>> of each error, in order
    result        \* the GenerationResult returned (<<>>: none yet)

bvars == <<objects, lastId, regCount, output, rootArg, setLog>>

cvars == <<cstage, dirEntries, files, catalog, cmpArgs, cmpRes>>

pvars == <<pc, tiles, disk, showGuides, idx, imageRefs, pagesId, tilePages, pageIdx,
           pageIds, pageLog, catalogId, readLog, streamIds, outFile>>

dvars == <<dstage, source, png, decoded, scanIn, scanOut>>

rvars == <<content, runNo, firstRun>>

\* The variables of the runs that stand apart from the PDF tool's main path.
gvars == <<gstage, job, genIdx, generated, failed, errors, result>>

apart == <<dvars, rvars, gvars>>

vars == <<bvars, cvars, pvars, apart>>

\* The variables a PdfBuilder run leaves alone.
notBuilder == <<cvars, pvars, apart>>

\* The variables a catalog run leaves alone.
notCatalog == <<bvars, pvars, apart>>

\* The variables outside the builder that a run of main leaves alone.
notPipeline == <<cvars, apart>>

-----------------------------------------------------------------------------
(* Bounds of the model *)

\* How many objects a free-form PdfBuilder run registers at most.
MaxObjects == 3

\* How many tile files a list given to sortTileFiles holds at most (beside
\* the five-tile lists of SortExample).
MaxFiles == 3

\* How many entries the scanned directory holds at most.
MaxEntries == 3

-----------------------------------------------------------------------------
(* Text helpers: String.prototype / Number.prototype as the code uses them *)

Char(s, i) == SubSeq(s, i, i)

\* Number.prototype.toString() of a non-negative integer: its decimal digits.
NumStr(n) == ToString(n)

\* The regular expression class \d (without the u flag: ASCII digits).
Digits == {"0", "1", "2", "3", "4", "5", "6", "7", "8", "9"}

IsDigit(c) == c \in Digits

DigitVal(c) ==
    CASE c = "0" -> 0 [] c = "1" -> 1 [] c = "2" -> 2 [] c = "3" -> 3
      [] c = "4" -> 4 [] c = "5" -> 5 [] c = "6" -> 6 [] c = "7" -> 7
      [] c = "8" -> 8 [] c = "9" -> 9

\* Number(digits) of a string of decimal digits.
RECURSIVE ParseNat(_)
ParseNat(s) ==
    IF Len(s) = 0 THEN 0
    ELSE ParseNat(SubSeq(s, 1, Len(s) - 1)) * 10 + DigitVal(Char(s, Len(s)))

MinOf(a, b) == IF a < b THEN a ELSE b
MaxOf(a, b) == IF a > b THEN a ELSE b

\* String.prototype.padStart(width, ch).
RECURSIVE PadStart(_, _, _)
PadStart(s, width, ch) ==
    IF Len(s) >= width THEN s ELSE PadStart(ch \o s, width, ch)

\* Array.prototype.join(sep) of a sequence of strings (joined by halves, to
\* keep the evaluation shallow).
RECURSIVE Join(_, _)
Join(strs, sep) ==
    IF Len(strs) = 0 THEN ""
    ELSE IF Len(strs) = 1 THEN strs[1]
    ELSE Join(SubSeq(strs, 1, Len(strs) \div 2), sep) \o sep
            \o Join(SubSeq(strs, Len(strs) \div 2 + 1, Len(strs)), sep)

-----------------------------------------------------------------------------
(* PdfBuilder *)

\* addObject: push the body; the id returned is the new length.
AddObject(objs, body) == Append(objs, body)

\* Faulty variant: the index of the pushed body instead of the new length.
ReturnedIdZeroBased(objsAfter) == Len(objsAfter) - 1

\* return this.objects.length (after the push).
ReturnedId(objsAfter) == Len(objsAfter)

\* Faulty variant: the body is pushed instead of written in place.
SetObjectAppends(objs, objectId, body) == Append(objs, body)

\* Faulty variant: the id taken for the 0-based index, so that the body lands
\* one place further on.
SetObjectAtIdAsIndex(objs, objectId, body) ==
    IF objectId < Len(objs) THEN [objs EXCEPT ![objectId + 1] = body]
    ELSE Append(objs, body)

\* setObject(objectId, body): this.objects[objectId - 1] = body.
SetObject(objs, objectId, body) == [objs EXCEPT ![objectId] = body]

AddRawObject(objs, raw) == AddObject(objs, raw)

PlaceholderBody == "<< >>"

AddPlaceholderObject(objs) == AddObject(objs, PlaceholderBody)

StreamBody(dict, data) == dict \o "\nstream\n" \o data \o "\nendstream"

AddStreamObject(objs, dict, data) == AddObject(objs, StreamBody(dict, data))

\* build: the fixed file header, 15 bytes.
PdfHeader == "%PDF-1.4\n%####\n"

ObjHeader(id) == NumStr(id) \o " 0 obj\n"

ObjFooter == "\nendobj\n"

ObjBlock(id, body) == ObjHeader(id) \o body \o ObjFooter

\* The running offset after the first k objects: offsets[k + 1] for k < n,
\* and xrefStart for k = n.
\* Faulty variant: the running offset forgets the "\nendobj\n" of each block.
RECURSIVE OffsetAfterNoFooter(_, _)
OffsetAfterNoFooter(objs, k) ==
    IF k = 0 THEN Len(PdfHeader)
    ELSE OffsetAfterNoFooter(objs, k - 1) + Len(ObjHeader(k)) + Len(objs[k])

RECURSIVE OffsetAfter(_, _)
OffsetAfter(objs, k) ==
    IF k = 0 THEN Len(PdfHeader)
    ELSE OffsetAfter(objs, k - 1) + Len(ObjBlock(k, objs[k]))

\* offsets: [0] then one recorded offset per object (1-based here: entry i+1
\* is the code's offsets[i]).
Offsets(objs) == <<0>> \o [i \in 1..Len(objs) |-> OffsetAfter(objs, i - 1)]

XrefStart(objs) == OffsetAfter(objs, Len(objs))

XrefRow(off) == PadStart(NumStr(off), 10, "0") \o " 00000 n "

XrefRows(objs) ==
    <<"0000000000 65535 f ">> \o
    [i \in 1..Len(objs) |-> XrefRow(Offsets(objs)[i + 1])]

XrefSection(objs) ==
    "xref\n0 " \o NumStr(Len(objs) + 1) \o "\n" \o Join(XrefRows(objs), "\n") \o "\n"

\* Faulty variant: /Size without the free entry 0.
TrailerSizeStale(objs, rootObjectId) ==
    "trailer\n<< /Size " \o NumStr(Len(objs)) \o " /Root " \o NumStr(rootObjectId)
        \o " 0 R >>\nstartxref\n" \o NumStr(XrefStart(objs)) \o "\n%%EOF\n"

Trailer(objs, rootObjectId) ==
    "trailer\n<< /Size " \o NumStr(Len(objs) + 1) \o " /Root " \o NumStr(rootObjectId)
        \o " 0 R >>\nstartxref\n" \o NumStr(XrefStart(objs)) \o "\n%%EOF\n"

RECURSIVE ObjBlocks(_, _)
ObjBlocks(objs, k) ==
    IF k = 0 THEN "" ELSE ObjBlocks(objs, k - 1) \o ObjBlock(k, objs[k])

Build(objs, rootObjectId) ==
    PdfHeader \o ObjBlocks(objs, Len(objs)) \o XrefSection(objs)
        \o Trailer(objs, rootObjectId)

-----------------------------------------------------------------------------
(* A free-form PdfBuilder run: any registration calls, setObject on        *)
(* registered ids, then build.                                             *)

\* Bodies and stream parts a caller may hand in.
RawBodies == {"<< /Type /Catalog /Pages 1 0 R >>"}
StreamDictOf(data) == "<< /Length " \o NumStr(Len(data)) \o " >>"
StreamDatas == {"abc", "q\nQ\nxref\n"}
SetBodies == {"<<>>", "<< /Type /Pages /Kids [2 0 R] /Count 1 >>"}

BuilderFresh ==
    /\ objects = <<>>
    /\ lastId = 0
    /\ regCount = 0
    /\ output = ""
    /\ rootArg = 0
    /\ setLog = <<>>

CatalogIdle ==
    /\ cstage = "idle"
    /\ dirEntries = <<>>
    /\ files = <<>>
    /\ catalog = <<>>
    /\ cmpArgs = <<>>
    /\ cmpRes = <<>>

PipelineIdle ==
    /\ pc = "idle"
    /\ tiles = <<>>
    /\ disk = <<>>
    /\ showGuides = FALSE
    /\ idx = 0
    /\ imageRefs = <<>>
    /\ pagesId = 0
    /\ tilePages = <<>>
    /\ pageIdx = 0
    /\ pageIds = <<>>
    /\ pageLog = <<>>
    /\ catalogId = 0
    /\ readLog = <<>>
    /\ streamIds = {}
    /\ outFile = ""

DecoderIdle ==
    /\ dstage = "idle"
    /\ source = <<>>
    /\ png = <<>>
    /\ decoded = <<>>
    /\ scanIn = <<>>
    /\ scanOut = <<>>

RunsIdle ==
    /\ content = <<>>
    /\ runNo = 0
    /\ firstRun = <<>>

GeneratorIdle ==
    /\ gstage = "idle"
    /\ job = <<>>
    /\ genIdx = 0
    /\ generated = 0
    /\ failed = 0
    /\ errors = <<>>
    /\ result = <<>>

RestIdle == DecoderIdle /\ RunsIdle /\ GeneratorIdle

BInit == BuilderFresh /\ CatalogIdle /\ PipelineIdle /\ RestIdle

Registered(objsAfter) ==
    /\ objects' = objsAfter
    /\ lastId' = ReturnedId(objsAfter)
    /\ regCount' = regCount + 1
    /\ output' = ""
    /\ rootArg' = 0
    /\ UNCHANGED <<setLog, notBuilder>>

CallAddRawObject ==
    /\ Len(objects) < MaxObjects
    /\ \E raw \in RawBodies : Registered(AddRawObject(objects, raw))

CallAddStreamObject ==
    /\ Len(objects) < MaxObjects
    /\ \E data \in StreamDatas :
          Registered(AddStreamObject(objects, StreamDictOf(data), data))

CallAddPlaceholderObject ==
    /\ Len(objects) < MaxObjects
    /\ Registered(AddPlaceholderObject(objects))

CallSetObject ==
    \E id \in 1..Len(objects), body \in SetBodies :
        /\ objects' = SetObject(objects, id, body)
        /\ setLog' = <<id, objects[id], regCount>>
        /\ output' = ""
        /\ rootArg' = 0
        /\ UNCHANGED <<lastId, regCount, notBuilder>>

CallBuild ==
    /\ Len(objects) >= 1
    /\ output = ""
    /\ \E root \in 1..Len(objects) :
          /\ output' = Build(objects, root)
          /\ rootArg' = root
    /\ UNCHANGED <<objects, lastId, regCount, setLog, notBuilder>>

BNext ==
    \/ CallAddRawObject
    \/ CallAddStreamObject
    \/ CallAddPlaceholderObject
    \/ CallSetObject
    \/ CallBuild

SpecBuilder == BInit /\ [][BNext]_vars

-----------------------------------------------------------------------------
(* Tile catalog: parseTileName, sortTileFiles, findPngFiles *)

LowerLetters == "abcdefghijklmnopqrstuvwxyz"
UpperLetters == "ABCDEFGHIJKLMNOPQRSTUVWXYZ"

IndexIn(str, c) ==
    IF \E k \in 1..Len(str) : Char(str, k) = c
    THEN CHOOSE k \in 1..Len(str) : Char(str, k) = c
    ELSE 0

\* String.prototype.toLowerCase on an ASCII string.
ToLowerChar(c) ==
    IF IndexIn(UpperLetters, c) > 0 THEN Char(LowerLetters, IndexIn(UpperLetters, c)) ELSE c

RECURSIVE ToLower(_)
ToLower(s) == IF Len(s) = 0 THEN "" ELSE ToLowerChar(Head(s)) \o ToLower(Tail(s))

\* The result null of parseTileName.
NoTile == [ok |-> FALSE, number |-> 0, suit |-> ""]

\* The class [mpsz] under the i flag.
SuitClass == {"m", "p", "s", "z", "M", "P", "S", "Z"}

\* parseTileName: /^(\d+)([mpsz])$/i, then Number(digits) and the suit in
\* lower case.
ParseTileName(label) ==
    LET n == Len(label) IN
    IF /\ n >= 2
       /\ \A j \in 1..(n - 1) : IsDigit(Char(label, j))
       /\ Char(label, n) \in SuitClass
    THEN [ok |-> TRUE,
          number |-> ParseNat(SubSeq(label, 1, n - 1)),
          suit |-> ToLower(Char(label, n))]
    ELSE NoTile

\* SUIT_ORDER.
SuitOrder(suit) ==
    CASE suit = "m" -> 0 [] suit = "p" -> 1 [] suit = "s" -> 2 [] suit = "z" -> 3

\* Number.MAX_SAFE_INTEGER is 2^53 - 1; the model's integers end at 2^31 - 1,
\* and the code only needs it to exceed every entry of HONOR_PRINT_ORDER.
MaxSafeInteger == 2147483647

\* Faulty variant: honors in numeric order.
HonorRankNatural(number) == IF number \in 1..7 THEN number - 1 ELSE MaxSafeInteger

\* HONOR_PRINT_ORDER[number] ?? Number.MAX_SAFE_INTEGER.
HonorRank(number) ==
    CASE number = 5 -> 0 [] number = 6 -> 1 [] number = 7 -> 2 [] number = 1 -> 3
      [] number = 2 -> 4 [] number = 3 -> 5 [] number = 4 -> 6
      [] OTHER -> MaxSafeInteger

\* String.prototype.localeCompare under the root collation, for labels of
\* ASCII letters, digits and dots: first by the letters and digits whatever
\* their case (punctuation before digits before letters, a shorter string
\* before its extensions), then lower case before upper case.
CollationOrder == ".0123456789abcdefghijklmnopqrstuvwxyz"

PrimaryWeight(c) == IndexIn(CollationOrder, ToLowerChar(c))

TertiaryWeight(c) == IF IndexIn(UpperLetters, c) > 0 THEN 1 ELSE 0

RECURSIVE PrimaryCompare(_, _)
PrimaryCompare(x, y) ==
    IF Len(x) = 0 /\ Len(y) = 0 THEN 0
    ELSE IF Len(x) = 0 THEN -1
    ELSE IF Len(y) = 0 THEN 1
    ELSE IF PrimaryWeight(Head(x)) < PrimaryWeight(Head(y)) THEN -1
    ELSE IF PrimaryWeight(Head(x)) > PrimaryWeight(Head(y)) THEN 1
    ELSE PrimaryCompare(Tail(x), Tail(y))

RECURSIVE TertiaryCompare(_, _)
TertiaryCompare(x, y) ==
    IF Len(x) = 0 \/ Len(y) = 0 THEN 0
    ELSE IF TertiaryWeight(Head(x)) < TertiaryWeight(Head(y)) THEN -1
    ELSE IF TertiaryWeight(Head(x)) > TertiaryWeight(Head(y)) THEN 1
    ELSE TertiaryCompare(Tail(x), Tail(y))

\* Faulty variant: a comparison that ignores case.
LocaleCompareCaseBlind(x, y) == PrimaryCompare(x, y)

LocaleCompare(x, y) ==
    IF PrimaryCompare(x, y) # 0 THEN PrimaryCompare(x, y) ELSE TertiaryCompare(x, y)

\* The comparator sortTileFiles hands to Array.prototype.sort.
Compare(a, b) ==
    LET pa == ParseTileName(a.label)
        pb == ParseTileName(b.label)
    IN  IF pa.ok /\ pb.ok THEN
            IF pa.suit # pb.suit THEN SuitOrder(pa.suit) - SuitOrder(pb.suit)
            ELSE IF /\ pa.suit = "z" /\ pb.suit = "z"
                    /\ HonorRank(pa.number) # HonorRank(pb.number)
                 THEN HonorRank(pa.number) - HonorRank(pb.number)
            ELSE IF pa.number # pb.number THEN pa.number - pb.number
            ELSE LocaleCompare(a.label, b.label)
        ELSE IF pa.ok /\ ~pb.ok THEN -1
        ELSE IF ~pa.ok /\ pb.ok THEN 1
        ELSE LocaleCompare(a.label, b.label)

\* Array.prototype.sort is a stable sort: each element goes after the elements
\* of the sorted part that do not compare greater than it.
InsertPos(sorted, x) ==
    IF \E i \in 1..Len(sorted) : Compare(x, sorted[i]) < 0
    THEN CHOOSE i \in 1..Len(sorted) :
             /\ Compare(x, sorted[i]) < 0
             /\ \A j \in 1..(i - 1) : Compare(x, sorted[j]) >= 0
    ELSE Len(sorted) + 1

InsertSorted(sorted, x) ==
    SubSeq(sorted, 1, InsertPos(sorted, x) - 1) \o <<x>>
        \o SubSeq(sorted, InsertPos(sorted, x), Len(sorted))

RECURSIVE SortPrefix(_, _)
SortPrefix(list, k) ==
    IF k = 0 THEN <<>> ELSE InsertSorted(SortPrefix(list, k - 1), list[k])

\* sortTileFiles: a sorted copy of the list.
SortTileFiles(list) == SortPrefix(list, Len(list))

\* Faulty variant: the test without the i flag.
EndsWithPngCaseSensitive(name) ==
    Len(name) >= 4 /\ SubSeq(name, Len(name) - 3, Len(name)) = ".png"

\* /\.png$/i.test(name)
EndsWithPng(name) ==
    Len(name) >= 4 /\ ToLower(SubSeq(name, Len(name) - 3, Len(name))) = ".png"

\* path.extname of a name without separators: from its last dot on, "" when
\* it has no dot or its only dot leads the name.
LastDot(name) ==
    IF \E k \in 1..Len(name) : Char(name, k) = "."
    THEN CHOOSE k \in 1..Len(name) :
             /\ Char(name, k) = "."
             /\ \A j \in (k + 1)..Len(name) : Char(name, j) # "."
    ELSE 0

Extname(name) ==
    IF LastDot(name) <= 1 THEN "" ELSE SubSeq(name, LastDot(name), Len(name))

\* path.basename(name, ext): the name without the suffix ext.
Basename(name, ext) ==
    IF /\ Len(ext) > 0
       /\ Len(ext) < Len(name)
       /\ SubSeq(name, Len(name) - Len(ext) + 1, Len(name)) = ext
    THEN SubSeq(name, 1, Len(name) - Len(ext))
    ELSE name

InputDir == "in"

\* path.join(inputDir, name)
PathJoin(dir, name) == dir \o "/" \o name

TileFileOf(name) ==
    [filePath |-> PathJoin(InputDir, name), label |-> Basename(name, Extname(name))]

IsPngFile(entry) == entry.isFile /\ EndsWithPng(entry.name)

\* .map((entry) => ({filePath, label}))
TileFilesOf(entries) == [i \in 1..Len(entries) |-> TileFileOf(entries[i].name)]

HasIdentity(file) == ParseTileName(file.label).ok

\* findPngFiles: the .png files of the directory whose label parses, sorted.
FindPngFiles(entries) ==
    SortTileFiles(SelectSeq(TileFilesOf(SelectSeq(entries, IsPngFile)), HasIdentity))

-----------------------------------------------------------------------------
(* Inputs of the catalog runs *)

\* All sequences without repetition of at most n members of S.
RECURSIVE SeqsNoDup(_, _)
SeqsNoDup(S, n) ==
    IF n = 0 THEN {<<>>}
    ELSE LET shorter == SeqsNoDup(S, n - 1)
         IN  shorter \cup
             {Append(q, x) : q \in {r \in shorter : Len(r) = n - 1}, x \in S}

Range(seq) == {seq[i] : i \in 1..Len(seq)}

NoRepeat(q) == \A i, j \in 1..Len(q) : i # j => q[i] # q[j]

SeqsDistinct(S, n) == {q \in SeqsNoDup(S, n) : NoRepeat(q)}

\* Labels of tile files given to sortTileFiles: every honor, and number tiles
\* of each suit, one of them with a two-digit rank.
SortLabels ==
    {"1m", "9m", "3p", "10p", "2s", "1z", "2z", "3z", "4z", "5z", "6z", "7z"}

\* The tiles of the documented example, in any order.
SortExample == {"5z", "1z", "9m", "1m", "3p"}

FileOfLabel(label) == TileFileOf(label \o ".png")

FilesOfLabels(labels) == [i \in 1..Len(labels) |-> FileOfLabel(labels[i])]

\* Labels given to the comparator: leading zeros, upper-case suits, honor
\* ranks outside 1..7, and labels that have no identity.
CompareLabels ==
    {"1m", "01m", "1M", "9m", "10m", "2p", "3s", "1z", "4z", "5z", "7z", "0z",
     "8z", "9Z", "08z", "m", "1x", "1m.svg", "readme", "Readme"}

\* Directory entries a scan may meet: name and whether it is a regular file.
DirUniverse ==
    {[name |-> n, isFile |-> TRUE] :
        n \in {"1m.png", "3p.png", "5z.png", "1M.png", "1m.PNG", "01m.png",
               "0m.png", "8z.png", "10s.png", "1m.svg.png", "readme.png",
               "1m.txt", ".png", "m.png"}}
    \cup {[name |-> "2m.png", isFile |-> FALSE]}

-----------------------------------------------------------------------------
(* sortTileFiles on a list of tile files *)

SortInit ==
    /\ BuilderFresh
    /\ PipelineIdle
    /\ RestIdle
    /\ cstage = "input"
    /\ files \in {FilesOfLabels(q) :
                    q \in SeqsDistinct(SortLabels, MaxFiles)
                          \cup {r \in SeqsDistinct(SortExample, 5) : Len(r) = 5}}
    /\ dirEntries = <<>>
    /\ catalog = <<>>
    /\ cmpArgs = <<>>
    /\ cmpRes = <<>>

CallSortTileFiles ==
    /\ cstage = "input"
    /\ cstage' = "done"
    /\ catalog' = SortTileFiles(files)
    /\ UNCHANGED <<dirEntries, files, cmpArgs, cmpRes, notCatalog>>

SpecSort == SortInit /\ [][CallSortTileFiles]_vars

(* The comparator on three tile files *)

CompareInit ==
    /\ BuilderFresh
    /\ PipelineIdle
    /\ RestIdle
    /\ cstage = "input"
    /\ cmpArgs \in {<<FileOfLabel(a), FileOfLabel(b), FileOfLabel(c)>> :
                      a \in CompareLabels, b \in CompareLabels, c \in CompareLabels}
    /\ cmpRes = <<>>
    /\ dirEntries = <<>>
    /\ files = <<>>
    /\ catalog = <<>>

CallCompare ==
    /\ cstage = "input"
    /\ cstage' = "done"
    /\ cmpRes' = <<Compare(cmpArgs[1], cmpArgs[2]), Compare(cmpArgs[2], cmpArgs[1]),
                   Compare(cmpArgs[2], cmpArgs[3]), Compare(cmpArgs[1], cmpArgs[3])>>
    /\ UNCHANGED <<dirEntries, files, catalog, cmpArgs, notCatalog>>

SpecCompare == CompareInit /\ [][CallCompare]_vars

(* findPngFiles on a directory *)

CatalogInit ==
    /\ BuilderFresh
    /\ PipelineIdle
    /\ RestIdle
    /\ cstage = "input"
    /\ dirEntries \in SeqsDistinct(DirUniverse, MaxEntries)
    /\ files = <<>>
    /\ catalog = <<>>
    /\ cmpArgs = <<>>
    /\ cmpRes = <<>>

CallFindPngFiles ==
    /\ cstage = "input"
    /\ cstage' = "done"
    /\ catalog' = FindPngFiles(dirEntries)
    /\ UNCHANGED <<dirEntries, files, cmpArgs, cmpRes, notCatalog>>

SpecCatalog == CatalogInit /\ [][CallFindPngFiles]_vars

-----------------------------------------------------------------------------
(* Layout constants and unit conversion *)

\* LAYOUT, in millimetres and counts.
PageWidthMm == 100
PageHeightMm == 148
Cols == 4
RowsPerPage == 4
MarginTopMm == 20
MarginLeftMm == 10
CellWidthMm == 17
CellHeightMm == 24
GapMm == 4

\* A length in points is held as a whole number of units of 1/1270000 pt, in
\* which mm * 72 / 25.4 pt is exactly mm * 3600000 units.  The code computes in
\* double precision; its results differ from the exact values by less than
\* 1e-9 pt, while every exact value (a multiple of 0.0001/127 pt) is at least
\* 0.0001/254 pt away from the nearest rounding boundary of toFixed(4).
UnitsPerTenThousandth == 127

MmToPtUnits == 3600000

\* mmToPt(mm) = mm * MM_TO_PT.
MmToPt(mm) == mm * MmToPtUnits

\* Number.prototype.toFixed(4) of a non-negative length: rounded to the
\* nearest 0.0001, four decimals always written.
ToFixed4(v) ==
    LET q == v \div UnitsPerTenThousandth
        r == v % UnitsPerTenThousandth
        n == IF 2 * r >= UnitsPerTenThousandth THEN q + 1 ELSE q
    IN  NumStr(n \div 10000) \o "." \o PadStart(NumStr(n % 10000), 4, "0")

PageWidthPt == MmToPt(PageWidthMm)
PageHeightPt == MmToPt(PageHeightMm)
CellWidthPt == MmToPt(CellWidthMm)
CellHeightPt == MmToPt(CellHeightMm)
MarginLeftPt == MmToPt(MarginLeftMm)
MarginTopPt == MmToPt(MarginTopMm)
GapPt == MmToPt(GapMm)

-----------------------------------------------------------------------------
(* createPdf: the text of each object *)

\* What parsePng returns for the files of the model: an image without and an
\* image with an opacity plane.  The deflated planes are opaque bytes.
OpaquePng ==
    [width |-> 2, height |-> 3, bitDepth |-> 8, rgbDeflated |-> "xRGBRGBRGBRGBRGBRGBz",
     hasAlpha |-> FALSE, alphaDeflated |-> ""]

AlphaPng ==
    [width |-> 68, height |-> 96, bitDepth |-> 8, rgbDeflated |-> "xrgbrgbz",
     hasAlpha |-> TRUE, alphaDeflated |-> "xAAAz"]

FileKinds == {"opaque", "alpha", "bad"}

ParsePngResult(kind) == IF kind = "alpha" THEN AlphaPng ELSE OpaquePng

\* Faulty variant: a file that cannot be decoded is taken for an image.
ParsePngNeverThrows(kind) == TRUE

\* parsePng(file) returns (TRUE) or throws (FALSE).
ParsePngReturns(kind) == kind # "bad"

SmaskDict(parsed) ==
    "<< /Type /XObject /Subtype /Image /Width " \o NumStr(parsed.width)
        \o " /Height " \o NumStr(parsed.height)
        \o " /ColorSpace /DeviceGray /BitsPerComponent 8 /Filter /FlateDecode /Length "
        \o NumStr(Len(parsed.alphaDeflated)) \o " >>"

\* Faulty variant: the soft mask entry names the image itself.
SmaskPartOffByOne(smaskId) ==
    IF smaskId # 0 THEN " /SMask " \o NumStr(smaskId + 1) \o " 0 R" ELSE ""

\* smaskId ? ` /SMask ${smaskId} 0 R` : '' (undefined is held as 0).
SmaskPart(smaskId) ==
    IF smaskId # 0 THEN " /SMask " \o NumStr(smaskId) \o " 0 R" ELSE ""

ImageDict(parsed, smaskId) ==
    "<< /Type /XObject /Subtype /Image /Width " \o NumStr(parsed.width)
        \o " /Height " \o NumStr(parsed.height)
        \o " /ColorSpace /DeviceRGB /BitsPerComponent " \o NumStr(parsed.bitDepth)
        \o " /Filter /FlateDecode /Length " \o NumStr(Len(parsed.rgbDeflated))
        \o SmaskPart(smaskId) \o " >>"

\* Faulty variant: the names start again at Im1 on every page.
ImageNamePerPage(i) == "Im" \o NumStr(((i - 1) % RowsPerPage) + 1)

ImageName(i) == "Im" \o NumStr(i)

\* Faulty variant: a slice that includes its end.
SliceInclusive(items, from, to) == SubSeq(items, from + 1, MinOf(to + 1, Len(items)))

\* Array.prototype.slice(from, to) with 0-based bounds, to excluded.
Slice(items, from, to) == SubSeq(items, from + 1, MinOf(to, Len(items)))

RECURSIVE ChunkFrom(_, _, _)
ChunkFrom(items, size, i) ==
    IF i >= Len(items) THEN <<>>
    ELSE <<Slice(items, i, i + size)>> \o ChunkFrom(items, size, i + size)

\* chunkBy(items, size)
ChunkBy(items, size) == ChunkFrom(items, size, 0)

\* Faulty variant: the columns set side by side without the gap.
CellXNoGap(col) == MarginLeftPt + col * CellWidthPt

CellX(col) == MarginLeftPt + col * (CellWidthPt + GapPt)

\* Faulty variant: the height measured from the top, as in the layout, and
\* not turned into the bottom-left origin of the page.
CellYFromTop(row) == MarginTopPt + row * (CellHeightPt + GapPt)

CellY(row) == PageHeightPt - MarginTopPt - CellHeightPt - row * (CellHeightPt + GapPt)

\* Faulty variant: a placement that never restores the graphics state.
PlacementCommandsNoRestore(name, row, col) ==
    <<"q",
      ToFixed4(CellWidthPt) \o " 0 0 " \o ToFixed4(CellHeightPt) \o " "
          \o ToFixed4(CellX(col)) \o " " \o ToFixed4(CellY(row)) \o " cm",
      "/" \o name \o " Do">>

\* commands.push('q', '<w> 0 0 <h> <x> <y> cm', '/<name> Do', 'Q')
PlacementCommands(name, row, col) ==
    <<"q",
      ToFixed4(CellWidthPt) \o " 0 0 " \o ToFixed4(CellHeightPt) \o " "
          \o ToFixed4(CellX(col)) \o " " \o ToFixed4(CellY(row)) \o " cm",
      "/" \o name \o " Do",
      "Q">>

\* The column loop of one row: col = from .. LAYOUT.cols - 1.
RECURSIVE RowCommands(_, _, _)
RowCommands(name, row, from) ==
    IF from >= Cols THEN <<>>
    ELSE PlacementCommands(name, row, from) \o RowCommands(name, row, from + 1)

XObjectEntry(ref) == "/" \o ref.name \o " " \o NumStr(ref.objectId) \o " 0 R"

\* Faulty variant: the row index taken for the global index.
RECURSIVE PageRowsNoPageOffset(_, _, _, _)
PageRowsNoPageOffset(refs, rows, pageIndex, row) ==
    IF row >= Len(rows) THEN <<<<>>, <<>>>>
    ELSE LET rest == PageRowsNoPageOffset(refs, rows, pageIndex, row + 1)
         IN  IF row + 1 > Len(refs) THEN rest
             ELSE <<RowCommands(refs[row + 1].name, row, 0) \o rest[1],
                    <<XObjectEntry(refs[row + 1])>> \o rest[2]>>

\* The row loop of one page, from row `row` on: <<commands, xObjectEntries>>.
\* pageIndex and row are 0-based as in the code.
RECURSIVE PageRows(_, _, _, _)
PageRows(refs, rows, pageIndex, row) ==
    IF row >= Len(rows) THEN <<<<>>, <<>>>>
    ELSE LET globalIndex == pageIndex * RowsPerPage + row
             rest == PageRows(refs, rows, pageIndex, row + 1)
         IN  IF globalIndex + 1 > Len(refs) THEN rest
             ELSE <<RowCommands(refs[globalIndex + 1].name, row, 0) \o rest[1],
                    <<XObjectEntry(refs[globalIndex + 1])>> \o rest[2]>>

\* The guide block of a page (showGuides).
GuideCommands ==
    LET gridWidthMm == Cols * CellWidthMm + (Cols - 1) * GapMm
        gridHeightMm == RowsPerPage * CellHeightMm + (RowsPerPage - 1) * GapMm
        leftMm == MarginLeftMm
        rightMm == leftMm + gridWidthMm
        topMm == MarginTopMm
        bottomMm == topMm + gridHeightMm
        centerXPt == MmToPt(PageWidthMm \div 2)
        centerYPt == MmToPt(PageHeightMm \div 2)
        leftPt == MmToPt(leftMm)
        rightPt == MmToPt(rightMm)
        topPt == MmToPt(topMm)
        bottomPt == MmToPt(bottomMm)
        topYPtFromBottom == PageHeightPt - topPt
        bottomYPtFromBottom == PageHeightPt - bottomPt
    IN  <<"q",
          "0.2 0.4 0.9 RG",
          "0.5 w",
          ToFixed4(centerXPt) \o " 0 m " \o ToFixed4(centerXPt) \o " "
              \o ToFixed4(PageHeightPt) \o " l S",
          "0 " \o ToFixed4(centerYPt) \o " m " \o ToFixed4(PageWidthPt) \o " "
              \o ToFixed4(centerYPt) \o " l S",
          "Q",
          "q",
          "0.9 0.2 0.2 RG",
          "0.8 w",
          ToFixed4(leftPt) \o " " \o ToFixed4(bottomYPtFromBottom) \o " m "
              \o ToFixed4(rightPt) \o " " \o ToFixed4(bottomYPtFromBottom) \o " l "
              \o ToFixed4(rightPt) \o " " \o ToFixed4(topYPtFromBottom) \o " l "
              \o ToFixed4(leftPt) \o " " \o ToFixed4(topYPtFromBottom) \o " l h S",
          "Q">>

\* Faulty variant: the guide blocks pushed before the placements.
PageCommandsGuidesFirst(refs, rows, pageIndex, guides) ==
    (IF guides THEN GuideCommands ELSE <<>>) \o PageRows(refs, rows, pageIndex, 0)[1]

PageCommands(refs, rows, pageIndex, guides) ==
    PageRows(refs, rows, pageIndex, 0)[1] \o (IF guides THEN GuideCommands ELSE <<>>)

\* Buffer.from(commands.join('\n') + '\n', 'ascii')
ContentData(commands) == Join(commands, "\n") \o "\n"

\* Faulty variant: the length taken before the final newline is appended.
ContentDictNoNewline(commands) ==
    "<< /Length " \o NumStr(Len(Join(commands, "\n"))) \o " >>"

\* `<< /Length ${contentData.length} >>`
ContentDict(commands) == "<< /Length " \o NumStr(Len(ContentData(commands))) \o " >>"

PageBody(parentId, xObjectEntries, contentId) ==
    "<< /Type /Page /Parent " \o NumStr(parentId) \o " 0 R /MediaBox [0 0 "
        \o ToFixed4(PageWidthPt) \o " " \o ToFixed4(PageHeightPt)
        \o "] /Resources << /XObject << " \o Join(xObjectEntries, " ")
        \o " >> >> /Contents " \o NumStr(contentId) \o " 0 R >>"

KidRef(id) == NumStr(id) \o " 0 R"

KidsText(ids) == Join([i \in 1..Len(ids) |-> KidRef(ids[i])], " ")

\* Faulty variant: the kids listed from the last page to the first.
PagesBodyKidsReversed(ids) ==
    "<< /Type /Pages /Kids ["
        \o Join([i \in 1..Len(ids) |-> KidRef(ids[Len(ids) + 1 - i])], " ")
        \o "] /Count " \o NumStr(Len(ids)) \o " >>"

PagesBody(ids) ==
    "<< /Type /Pages /Kids [" \o KidsText(ids) \o "] /Count " \o NumStr(Len(ids)) \o " >>"

CatalogBody(pagesRef) == "<< /Type /Catalog /Pages " \o NumStr(pagesRef) \o " 0 R >>"

-----------------------------------------------------------------------------
(* main and createPdf, step by step *)

\* How many tiles the catalog of a run holds at most.
MaxTiles == 5

\* A directory entry (fs.Dirent): its name and whether it is a regular file.
FileEntry(name) == [name |-> name, isFile |-> TRUE]

DirectoryEntry(name) == [name |-> name, isFile |-> FALSE]

\* A directory of the n tile files nm.png, ..., 1m.png and a text file.
TileDir(n) ==
    [i \in 1..(n + 1) |->
        IF i = 1 THEN FileEntry("readme.txt")
        ELSE FileEntry(NumStr(n + 2 - i) \o "m.png")]

\* Directories none of whose entries is a tile file.
EmptyDirs ==
    {<<>>,
     <<FileEntry("readme.png")>>,
     <<FileEntry("1m.txt"), DirectoryEntry("2m.png")>>,
     <<FileEntry("1m.svg.png"), FileEntry("m.png"), FileEntry("1x.png")>>}

PipelineDirs == EmptyDirs \cup {TileDir(n) : n \in 1..MaxTiles}

\* The paths of the tile files of a directory.
TilePaths(entries) ==
    {PathJoin(InputDir, entries[i].name) :
        i \in {j \in 1..Len(entries) : IsPngFile(entries[j])}}

\* A run of main starts: nothing listed, read, registered or written.
PipelineFresh ==
    /\ pc = "start"
    /\ tiles = <<>>
    /\ disk = <<>>
    /\ idx = 0
    /\ imageRefs = <<>>
    /\ pagesId = 0
    /\ tilePages = <<>>
    /\ pageIdx = 0
    /\ pageIds = <<>>
    /\ pageLog = <<>>
    /\ catalogId = 0
    /\ readLog = <<>>
    /\ streamIds = {}
    /\ outFile = ""

PInit ==
    /\ BuilderFresh
    /\ DecoderIdle
    /\ GeneratorIdle
    /\ cstage = "idle"
    /\ dirEntries \in PipelineDirs
    /\ files = <<>>
    /\ catalog = <<>>
    /\ cmpArgs = <<>>
    /\ cmpRes = <<>>
    /\ content \in [TilePaths(dirEntries) -> FileKinds]
    /\ runNo = 1
    /\ firstRun = <<>>
    /\ showGuides \in BOOLEAN
    /\ PipelineFresh

\* main: const tiles = await findPngFiles(inputDir); disk notes what each
\* catalog file holds.
ListTiles ==
    /\ pc = "start"
    /\ tiles' = FindPngFiles(dirEntries)
    /\ disk' = [i \in 1..Len(tiles') |-> content[tiles'[i].filePath]]
    /\ pc' = "main"
    /\ UNCHANGED <<bvars, notPipeline, showGuides, idx, imageRefs, pagesId, tilePages,
                   pageIdx, pageIds, pageLog, catalogId, readLog, streamIds, outFile>>

\* Faulty variant: the check of the empty catalog left out.
EmptyCheckMissing(list) == FALSE

\* tiles.length === 0
TilesLengthIsZero(list) == Len(list) = 0

\* main: findPngFiles returned no tile: throw.
RejectEmpty ==
    /\ pc = "main"
    /\ TilesLengthIsZero(tiles)
    /\ pc' = "failed"
    /\ UNCHANGED <<bvars, notPipeline, tiles, disk, showGuides, idx, imageRefs, pagesId,
                   tilePages, pageIdx, pageIds, pageLog, catalogId, readLog, streamIds,
                   outFile>>

\* main calls createPdf: a new PdfBuilder, an empty imageRefs.
EnterCreatePdf ==
    /\ pc = "main"
    /\ ~TilesLengthIsZero(tiles)
    /\ pc' = "embed"
    /\ idx' = 1
    /\ UNCHANGED <<bvars, notPipeline, tiles, disk, showGuides, imageRefs, pagesId, tilePages,
                   pageIdx, pageIds, pageLog, catalogId, readLog, streamIds, outFile>>

\* One pass of the tile loop whose parsePng throws: createPdf rejects, main
\* rejects.
DecodeFails ==
    /\ pc = "embed"
    /\ idx <= Len(tiles)
    /\ ~ParsePngReturns(disk[idx])
    /\ readLog' = Append(readLog, tiles[idx].filePath)
    /\ pc' = "failed"
    /\ UNCHANGED <<bvars, notPipeline, tiles, disk, showGuides, idx, imageRefs, pagesId,
                   tilePages, pageIdx, pageIds, pageLog, catalogId, streamIds, outFile>>

\* One pass of the tile loop: read and decode the file, register the soft mask
\* (when the image has an opacity plane) and the RGB image, note the image.
EmbedTile ==
    /\ pc = "embed"
    /\ idx <= Len(tiles)
    /\ ParsePngReturns(disk[idx])
    /\ LET parsed == ParsePngResult(disk[idx])
           withMask == IF parsed.hasAlpha
                       THEN AddStreamObject(objects, SmaskDict(parsed), parsed.alphaDeflated)
                       ELSE objects
           smaskId == IF parsed.hasAlpha THEN ReturnedId(withMask) ELSE 0
           withImage == AddStreamObject(withMask, ImageDict(parsed, smaskId),
                                        parsed.rgbDeflated)
           imageId == ReturnedId(withImage)
       IN  /\ objects' = withImage
           /\ lastId' = imageId
           /\ regCount' = regCount + (IF parsed.hasAlpha THEN 2 ELSE 1)
           /\ streamIds' = streamIds \cup {imageId}
                              \cup (IF parsed.hasAlpha THEN {smaskId} ELSE {})
           /\ imageRefs' = Append(imageRefs, [name |-> ImageName(idx), objectId |-> imageId])
    /\ readLog' = Append(readLog, tiles[idx].filePath)
    /\ idx' = idx + 1
    /\ UNCHANGED <<output, rootArg, setLog, notPipeline, pc, tiles, disk, showGuides, pagesId,
                   tilePages, pageIdx, pageIds, pageLog, catalogId, outFile>>

\* After the tile loop: reserve the page tree root, split the tiles in pages.
ReservePages ==
    /\ pc = "embed"
    /\ idx > Len(tiles)
    /\ objects' = AddPlaceholderObject(objects)
    /\ lastId' = ReturnedId(objects')
    /\ regCount' = regCount + 1
    /\ pagesId' = ReturnedId(objects')
    /\ tilePages' = ChunkBy(tiles, RowsPerPage)
    /\ pageIdx' = 1
    /\ pc' = "pages"
    /\ UNCHANGED <<output, rootArg, setLog, notPipeline, tiles, disk, showGuides, idx, imageRefs,
                   pageIds, pageLog, catalogId, readLog, streamIds, outFile>>

\* One pass of the page loop: the commands, the content stream, the page.
EmitPage ==
    /\ pc = "pages"
    /\ pageIdx <= Len(tilePages)
    /\ LET rows == tilePages[pageIdx]
           commands == PageCommands(imageRefs, rows, pageIdx - 1, showGuides)
           xObjectEntries == PageRows(imageRefs, rows, pageIdx - 1, 0)[2]
           withContent == AddStreamObject(objects, ContentDict(commands),
                                          ContentData(commands))
           contentId == ReturnedId(withContent)
           withPage == AddRawObject(withContent,
                                    PageBody(pagesId, xObjectEntries, contentId))
           pageId == ReturnedId(withPage)
       IN  /\ objects' = withPage
           /\ lastId' = pageId
           /\ regCount' = regCount + 2
           /\ streamIds' = streamIds \cup {contentId}
           /\ pageIds' = Append(pageIds, pageId)
           /\ pageLog' = Append(pageLog, [rows |-> rows, commands |-> commands,
                                          xObjectEntries |-> xObjectEntries,
                                          contentId |-> contentId, pageId |-> pageId])
    /\ pageIdx' = pageIdx + 1
    /\ UNCHANGED <<output, rootArg, setLog, notPipeline, pc, tiles, disk, showGuides, idx,
                   imageRefs, pagesId, tilePages, catalogId, readLog, outFile>>

\* After the page loop: write the page tree root over the placeholder.
SetPagesTree ==
    /\ pc = "pages"
    /\ pageIdx > Len(tilePages)
    /\ objects' = SetObject(objects, pagesId, PagesBody(pageIds))
    /\ setLog' = <<pagesId, objects[pagesId], regCount>>
    /\ pc' = "tree"
    /\ UNCHANGED <<lastId, regCount, output, rootArg, notPipeline, tiles, disk, showGuides, idx,
                   imageRefs, pagesId, tilePages, pageIdx, pageIds, pageLog, catalogId,
                   readLog, streamIds, outFile>>

\* Register the catalog.
AddCatalog ==
    /\ pc = "tree"
    /\ objects' = AddRawObject(objects, CatalogBody(pagesId))
    /\ lastId' = ReturnedId(objects')
    /\ regCount' = regCount + 1
    /\ catalogId' = ReturnedId(objects')
    /\ pc' = "build"
    /\ UNCHANGED <<output, rootArg, setLog, notPipeline, tiles, disk, showGuides, idx, imageRefs,
                   pagesId, tilePages, pageIdx, pageIds, pageLog, readLog, streamIds,
                   outFile>>

\* return builder.build(catalogId)
BuildPdf ==
    /\ pc = "build"
    /\ output' = Build(objects, catalogId)
    /\ rootArg' = catalogId
    /\ pc' = "built"
    /\ UNCHANGED <<objects, lastId, regCount, setLog, notPipeline, tiles, disk, showGuides, idx,
                   imageRefs, pagesId, tilePages, pageIdx, pageIds, pageLog, catalogId,
                   readLog, streamIds, outFile>>

\* main: mkdir and writeFile(outputFile, pdf).
WriteOutput ==
    /\ pc = "built"
    /\ outFile' = output
    /\ pc' = "done"
    /\ UNCHANGED <<bvars, notPipeline, tiles, disk, showGuides, idx, imageRefs, pagesId,
                   tilePages, pageIdx, pageIds, pageLog, catalogId, readLog, streamIds>>

PNext ==
    \/ ListTiles
    \/ RejectEmpty
    \/ EnterCreatePdf
    \/ DecodeFails
    \/ EmbedTile
    \/ ReservePages
    \/ EmitPage
    \/ SetPagesTree
    \/ AddCatalog
    \/ BuildPdf
    \/ WriteOutput

SpecPdf == PInit /\ [][PNext]_vars

\* The calls a PdfBuilder receives: those of a free-form run and those
\* createPdf makes in a run of main.
SpecCalls == (BInit \/ PInit) /\ [][(pc = "idle" /\ BNext) \/ PNext]_vars

-----------------------------------------------------------------------------
(* The tool run twice on one directory: the files and what they hold stay, *)
(* the order in which fs.readdir lists them is any.                        *)

\* How many files the directory holds at most.
MaxRunFiles == 3

\* The file names a directory is made of; two of them differ in the case of
\* the extension only.
RunNames == <<"1m.png", "2m.png", "01m.png", "1m.PNG">>

\* The entries of the names chosen by keep, in the order of RunNames.
RunDir(keep) ==
    LET pick(i) == i \in keep
        chosen == SelectSeq([i \in 1..Len(RunNames) |-> i], pick)
    IN  [k \in 1..Len(chosen) |-> FileEntry(RunNames[chosen[k]])]

\* Every order of the entries of a directory.
Enumerations(entries) ==
    {q \in SeqsDistinct(Range(entries), Len(entries)) : Len(q) = Len(entries)}

TInit ==
    /\ BuilderFresh
    /\ DecoderIdle
    /\ GeneratorIdle
    /\ cstage = "idle"
    /\ \E keep \in SUBSET (1..Len(RunNames)) :
          /\ Cardinality(keep) <= MaxRunFiles
          /\ dirEntries = RunDir(keep)
    /\ files = <<>>
    /\ catalog = <<>>
    /\ cmpArgs = <<>>
    /\ cmpRes = <<>>
    /\ content \in [TilePaths(dirEntries) -> FileKinds]
    /\ runNo = 1
    /\ firstRun = <<>>
    /\ showGuides = FALSE
    /\ PipelineFresh

\* The first run has ended; the tool is started again on the directory, which
\* now lists its entries in any order.
RunAgain ==
    /\ runNo = 1
    /\ pc \in {"done", "failed"}
    /\ firstRun' = [pc |-> pc, outFile |-> outFile]
    /\ runNo' = 2
    /\ dirEntries' \in Enumerations(dirEntries)
    /\ objects' = <<>>
    /\ lastId' = 0
    /\ regCount' = 0
    /\ output' = ""
    /\ rootArg' = 0
    /\ setLog' = <<>>
    /\ pc' = "start"
    /\ tiles' = <<>>
    /\ disk' = <<>>
    /\ idx' = 0
    /\ imageRefs' = <<>>
    /\ pagesId' = 0
    /\ tilePages' = <<>>
    /\ pageIdx' = 0
    /\ pageIds' = <<>>
    /\ pageLog' = <<>>
    /\ catalogId' = 0
    /\ readLog' = <<>>
    /\ streamIds' = {}
    /\ outFile' = ""
    /\ UNCHANGED <<cstage, files, catalog, cmpArgs, cmpRes, content, showGuides, dvars,
                   gvars>>

TNext == PNext \/ RunAgain

SpecTwice == TInit /\ [][TNext]_vars

-----------------------------------------------------------------------------
(* The tool run on one directory without and then with --guides *)

\* The first run: any directory of the pipeline, guides off.
GuidesInit ==
    /\ BuilderFresh
    /\ DecoderIdle
    /\ GeneratorIdle
    /\ cstage = "idle"
    /\ dirEntries \in PipelineDirs
    /\ files = <<>>
    /\ catalog = <<>>
    /\ cmpArgs = <<>>
    /\ cmpRes = <<>>
    /\ content \in [TilePaths(dirEntries) -> FileKinds]
    /\ runNo = 1
    /\ firstRun = <<>>
    /\ showGuides = FALSE
    /\ PipelineFresh

\* The first run has ended; the tool is started again on the same directory
\* with --guides.  What createPdf made in the first run is kept for
\* comparison.
RunWithGuides ==
    /\ runNo = 1
    /\ pc \in {"done", "failed"}
    /\ firstRun' = [pc |-> pc, outFile |-> outFile, objects |-> objects,
                    imageRefs |-> imageRefs, pagesId |-> pagesId, pageIds |-> pageIds,
                    pageLog |-> pageLog, catalogId |-> catalogId]
    /\ runNo' = 2
    /\ showGuides' = TRUE
    /\ objects' = <<>>
    /\ lastId' = 0
    /\ regCount' = 0
    /\ output' = ""
    /\ rootArg' = 0
    /\ setLog' = <<>>
    /\ pc' = "start"
    /\ tiles' = <<>>
    /\ disk' = <<>>
    /\ idx' = 0
    /\ imageRefs' = <<>>
    /\ pagesId' = 0
    /\ tilePages' = <<>>
    /\ pageIdx' = 0
    /\ pageIds' = <<>>
    /\ pageLog' = <<>>
    /\ catalogId' = 0
    /\ readLog' = <<>>
    /\ streamIds' = {}
    /\ outFile' = ""
    /\ UNCHANGED <<cvars, dvars, gvars, content>>

GuidesNext == PNext \/ RunWithGuides

SpecGuides == GuidesInit /\ [][GuidesNext]_vars

-----------------------------------------------------------------------------
(* The PNG decoder: parsePng, unfilterScanlines, paethPredictor.  A Buffer  *)
(* is here a sequence of bytes 0..255; offsets are 0-based as in the code. *)

\* PNG_SIGNATURE
PngSignature == <<137, 80, 78, 71, 13, 10, 26, 10>>

\* The chunk types 'IHDR', 'IDAT', 'IEND' in ASCII.
IhdrType == <<73, 72, 68, 82>>
IdatType == <<73, 68, 65, 84>>
IendType == <<73, 69, 78, 68>>

\* buffer.subarray(start, end)
Subarray(buffer, start, end) == SubSeq(buffer, start + 1, MinOf(end, Len(buffer)))

\* buffer.readUInt32BE(offset), for offset + 4 <= buffer.length
ReadUInt32BE(buffer, offset) ==
    ((buffer[offset + 1] * 256 + buffer[offset + 2]) * 256 + buffer[offset + 3]) * 256
        + buffer[offset + 4]

\* buffer[offset], for offset < buffer.length
ReadByte(buffer, offset) == buffer[offset + 1]

Abs(n) == IF n < 0 THEN -n ELSE n

\* Faulty variant: the left neighbour taken for the predictor.
PaethPredictorLeftOnly(a, b, c) == a

\* Faulty variant: a tie with the upper-left neighbour goes to that neighbour.
PaethPredictorTiesToUpLeft(a, b, c) ==
    LET p == a + b - c
        pa == Abs(p - a)
        pb == Abs(p - b)
        pcc == Abs(p - c)
    IN  IF pa <= pb /\ pa < pcc THEN a
        ELSE IF pb < pcc THEN b
        ELSE c

PaethPredictor(a, b, c) ==
    LET p == a + b - c
        pa == Abs(p - a)
        pb == Abs(p - b)
        pcc == Abs(p - c)
    IN  IF pa <= pb /\ pa <= pcc THEN a
        ELSE IF pb <= pcc THEN b
        ELSE c

\* What a call returns or throws: ok, the error thrown, the value returned.
Thrown(error) == [ok |-> FALSE, error |-> error, raw |-> <<>>]

\* The byte loop of unfilterScanlines from byte k (= rowOut + x) on; raw holds
\* the bytes written so far.
RECURSIVE UnfilterFrom(_, _, _, _, _, _)
UnfilterFrom(inflated, stride, bytesPerPixel, total, raw, k) ==
    IF k >= total THEN [ok |-> TRUE, error |-> "", raw |-> raw]
    ELSE LET row == k \div stride
             x == k % stride
             rowIn == row * (stride + 1)
             rowOut == row * stride
             filter == inflated[rowIn + 1]
             current == inflated[rowIn + 1 + x + 1]
             left == IF x >= bytesPerPixel THEN raw[rowOut + x - bytesPerPixel + 1] ELSE 0
             up == IF row > 0 THEN raw[rowOut - stride + x + 1] ELSE 0
             upLeft == IF row > 0 /\ x >= bytesPerPixel
                       THEN raw[rowOut - stride + x - bytesPerPixel + 1] ELSE 0
             value == CASE filter = 0 -> current
                        [] filter = 1 -> (current + left) % 256
                        [] filter = 2 -> (current + up) % 256
                        [] filter = 3 -> (current + ((left + up) \div 2)) % 256
                        [] filter = 4 -> (current + PaethPredictor(left, up, upLeft)) % 256
                        [] OTHER -> 0
         IN  IF filter \notin 0..4 THEN Thrown("filter")
             ELSE UnfilterFrom(inflated, stride, bytesPerPixel, total,
                               Append(raw, value), k + 1)

UnfilterScanlines(inflated, width, height, bytesPerPixel) ==
    LET stride == width * bytesPerPixel
        expected == height * (stride + 1)
    IN  IF Len(inflated) # expected THEN Thrown("dataLength")
        ELSE UnfilterFrom(inflated, stride, bytesPerPixel,
                          width * height * bytesPerPixel, <<>>, 0)

\* zlib, as far as the decoder depends on it: deflateSync frames the data
\* with a two-byte header and a checksum, inflateSync returns the framed data
\* or throws on anything that is not such a frame.
RECURSIVE SumBytes(_)
SumBytes(data) ==
    IF Len(data) = 0 THEN 0
    ELSE IF Len(data) = 1 THEN data[1]
    ELSE LET half == Len(data) \div 2
         IN  SumBytes(SubSeq(data, 1, half)) + SumBytes(SubSeq(data, half + 1, Len(data)))

ZlibHeader == <<120, 156>>

ZlibCheck(data) == (1 + SumBytes(data)) % 251

DeflateSync(data) == ZlibHeader \o data \o <<ZlibCheck(data)>>

InflateSync(compressed) ==
    LET n == Len(compressed)
    IN  IF /\ n >= 3
           /\ SubSeq(compressed, 1, 2) = ZlibHeader
           /\ compressed[n] = ZlibCheck(SubSeq(compressed, 3, n - 1))
        THEN [ok |-> TRUE, data |-> SubSeq(compressed, 3, n - 1)]
        ELSE [ok |-> FALSE, data |-> <<>>]

\* parsePng throws: no ParsedPng is returned.
NoPng(error) ==
    [ok |-> FALSE, error |-> error, width |-> 0, height |-> 0, bitDepth |-> 0,
     rgbDeflated |-> <<>>, hasAlpha |-> FALSE, alphaDeflated |-> <<>>]

\* The locals of parsePng before the chunk loop.
ScanStart ==
    [error |-> "", width |-> 0, height |-> 0, bitDepth |-> 0, colorType |-> 0,
     interlace |-> 0, idatChunks |-> <<>>]

\* Faulty variant: the test of the declared length left out.
ChunkNeverOverruns(dataEnd, bufferLength) == FALSE

\* dataEnd + 4 > buffer.length
ChunkOverruns(dataEnd, bufferLength) == dataEnd + 4 > bufferLength

\* The chunk loop of parsePng from offset on.
RECURSIVE ScanChunks(_, _, _)
ScanChunks(buffer, offset, acc) ==
    IF offset + 8 > Len(buffer) THEN acc
    ELSE LET length == ReadUInt32BE(buffer, offset)
             type == Subarray(buffer, offset + 4, offset + 8)
             dataStart == offset + 8
             dataEnd == dataStart + length
             data == Subarray(buffer, dataStart, dataEnd)
         IN  IF ChunkOverruns(dataEnd, Len(buffer))
             THEN [acc EXCEPT !.error = "chunkLength"]
             ELSE IF type = IhdrType
             THEN IF Len(data) < 13 THEN [acc EXCEPT !.error = "buffer"]
                  ELSE ScanChunks(buffer, dataEnd + 4,
                           [acc EXCEPT !.width = ReadUInt32BE(data, 0),
                                       !.height = ReadUInt32BE(data, 4),
                                       !.bitDepth = ReadByte(data, 8),
                                       !.colorType = ReadByte(data, 9),
                                       !.interlace = ReadByte(data, 12)])
             ELSE IF type = IdatType
             THEN ScanChunks(buffer, dataEnd + 4,
                      [acc EXCEPT !.idatChunks = Append(@, data)])
             ELSE IF type = IendType THEN acc
             ELSE ScanChunks(buffer, dataEnd + 4, acc)

\* Buffer.concat(chunks)
RECURSIVE Concat(_)
Concat(chunks) == IF chunks = <<>> THEN <<>> ELSE Head(chunks) \o Concat(Tail(chunks))

BytesPerPixel(colorType) ==
    IF colorType = 6 THEN 4 ELSE IF colorType = 4 THEN 2 ELSE IF colorType = 2 THEN 3 ELSE 1

\* Faulty variant: the gray sample written to the red byte only.
RgbPlaneGrayInRedOnly(raw, colorType, pixels) ==
    [k \in 1..(pixels * 3) |->
        LET i == (k - 1) \div 3
            c == (k - 1) % 3
        IN  IF colorType = 0 THEN (IF c = 0 THEN ReadByte(raw, i) ELSE 0)
            ELSE IF colorType = 4 THEN (IF c = 0 THEN ReadByte(raw, i * 2) ELSE 0)
            ELSE ReadByte(raw, i * 4 + c)]

\* The rgb buffer the pixel loops fill: byte dst + c of pixel i.
RgbPlane(raw, colorType, pixels) ==
    [k \in 1..(pixels * 3) |->
        LET i == (k - 1) \div 3
            c == (k - 1) % 3
        IN  IF colorType = 0 THEN ReadByte(raw, i)
            ELSE IF colorType = 4 THEN ReadByte(raw, i * 2)
            ELSE ReadByte(raw, i * 4 + c)]

\* The alpha buffer the pixel loops fill (colour types 4 and 6).
AlphaPlane(raw, colorType, pixels) ==
    [k \in 1..pixels |->
        IF colorType = 4 THEN ReadByte(raw, (k - 1) * 2 + 1)
        ELSE ReadByte(raw, (k - 1) * 4 + 3)]

\* parsePng after the chunk loop: the checks, inflate, unfilter, the planes.
PngOf(scan) ==
    IF scan.width = 0 \/ scan.height = 0 \/ Len(scan.idatChunks) = 0
    THEN NoPng("missingChunks")
    ELSE IF scan.bitDepth # 8 THEN NoPng("bitDepth")
    ELSE IF scan.interlace # 0 THEN NoPng("interlace")
    ELSE IF scan.colorType \notin {0, 2, 4, 6} THEN NoPng("colorType")
    ELSE LET inflated == InflateSync(Concat(scan.idatChunks))
             bytesPerPixel == BytesPerPixel(scan.colorType)
             unfiltered == UnfilterScanlines(inflated.data, scan.width, scan.height,
                                             bytesPerPixel)
             raw == unfiltered.raw
             pixels == scan.width * scan.height
         IN  IF ~inflated.ok THEN NoPng("inflate")
             ELSE IF ~unfiltered.ok THEN NoPng(unfiltered.error)
             ELSE [ok |-> TRUE, error |-> "", width |-> scan.width,
                   height |-> scan.height, bitDepth |-> scan.bitDepth,
                   rgbDeflated |->
                       DeflateSync(IF scan.colorType = 2 THEN raw
                                   ELSE RgbPlane(raw, scan.colorType, pixels)),
                   hasAlpha |-> scan.colorType \in {4, 6},
                   alphaDeflated |->
                       IF scan.colorType \in {4, 6}
                       THEN DeflateSync(AlphaPlane(raw, scan.colorType, pixels))
                       ELSE <<>>]

ParsePng(buffer) ==
    IF Len(buffer) < 8 \/ Subarray(buffer, 0, 8) # PngSignature
    THEN NoPng("signature")
    ELSE LET scan == ScanChunks(buffer, 8, ScanStart)
         IN  IF scan.error # "" THEN NoPng(scan.error) ELSE PngOf(scan)

-----------------------------------------------------------------------------
(* Inputs of the decoder runs: an encoder of small images, following the   *)
(* PNG format, and the ways a file can be damaged.                         *)

\* The largest width and height of an image.
MaxDim == 2

\* Byte patterns: byte k is (a*k*k + b*k + c) mod 256.
Seeds ==
    {<<0, 1, 0>>, <<0, 0, 255>>, <<0, 85, 170>>, <<0, 127, 3>>,
     <<1, 0, 200>>, <<3, 251, 7>>, <<16, 64, 128>>, <<5, 255, 255>>}

PatternByte(seed, k) == (seed[1] * k * k + seed[2] * k + seed[3]) % 256

PatternBytes(seed, n) == [k \in 1..n |-> PatternByte(seed, k)]

\* The Paeth predictor as the PNG format defines it: of left, up and upper
\* left the one nearest to left + up - upper left, in that order on ties.
PaethReference(a, b, c) ==
    LET near(v) == Abs(a + b - c - v)
    IN  IF near(a) <= near(b) /\ near(a) <= near(c) THEN a
        ELSE IF near(b) <= near(c) THEN b
        ELSE c

\* The prediction of byte x of a row from the unfiltered bytes: of the byte
\* one pixel to the left, the byte above and the byte above that one;
\* neighbours outside the image count as 0.
Prediction(raw, filter, stride, bytesPerPixel, row, x) ==
    LET at == row * stride + x + 1
        left == IF x >= bytesPerPixel THEN raw[at - bytesPerPixel] ELSE 0
        up == IF row > 0 THEN raw[at - stride] ELSE 0
        upLeft == IF row > 0 /\ x >= bytesPerPixel
                  THEN raw[at - stride - bytesPerPixel] ELSE 0
    IN  CASE filter = 1 -> left
          [] filter = 2 -> up
          [] filter = 3 -> (left + up) \div 2
          [] filter = 4 -> PaethReference(left, up, upLeft)
          [] OTHER -> 0

\* The forward scanline filter: every row is its filter selector followed by
\* its bytes minus their prediction, modulo 256.
FilterScanlines(raw, width, height, bytesPerPixel, filters) ==
    LET stride == width * bytesPerPixel
    IN  [j \in 1..(height * (stride + 1)) |->
            LET row == (j - 1) \div (stride + 1)
                pos == (j - 1) % (stride + 1)
            IN  IF pos = 0 THEN filters[row + 1]
                ELSE (raw[row * stride + pos]
                        - Prediction(raw, filters[row + 1], stride, bytesPerPixel,
                                     row, pos - 1)
                        + 256) % 256]

\* The filter selectors of the rows: any of 0..4 for each row.
FilterChoices(height) == [1..height -> 0..4]

(* unfilterScanlines on the filtered samples of an image *)

UnfilterInit ==
    /\ BuilderFresh
    /\ CatalogIdle
    /\ PipelineIdle
    /\ RunsIdle
    /\ GeneratorIdle
    /\ dstage = "input"
    /\ \E width \in 1..MaxDim, height \in 1..MaxDim, bytesPerPixel \in 1..4, seed \in Seeds :
          \E filters \in FilterChoices(height) :
              LET raw == PatternBytes(seed, width * height * bytesPerPixel)
              IN  /\ source = [raw |-> raw, filters |-> filters]
                  /\ scanIn = [inflated |-> FilterScanlines(raw, width, height,
                                                            bytesPerPixel, filters),
                               width |-> width, height |-> height,
                               bytesPerPixel |-> bytesPerPixel]
    /\ png = <<>>
    /\ decoded = <<>>
    /\ scanOut = <<>>

CallUnfilterScanlines ==
    /\ dstage = "input"
    /\ scanIn # <<>>
    /\ png = <<>>
    /\ scanOut' = UnfilterScanlines(scanIn.inflated, scanIn.width, scanIn.height,
                                    scanIn.bytesPerPixel)
    /\ dstage' = "done"
    /\ UNCHANGED <<source, png, decoded, scanIn, rvars, gvars, bvars, cvars, pvars>>

SpecUnfilter == UnfilterInit /\ [][CallUnfilterScanlines]_vars

\* paethPredictor on its own: a left and an upper byte are given, and the
\* function is called with them for every upper-left byte.
PaethInit ==
    /\ BuilderFresh
    /\ CatalogIdle
    /\ PipelineIdle
    /\ RunsIdle
    /\ GeneratorIdle
    /\ dstage = "paeth"
    /\ source \in [a : 0..255, b : 0..255]
    /\ png = <<>>
    /\ decoded = <<>>
    /\ scanIn = <<>>
    /\ scanOut = <<>>

\* scanOut[c + 1] = paethPredictor(a, b, c)
CallPaethPredictor ==
    /\ dstage = "paeth"
    /\ scanOut' = [k \in 1..256 |-> PaethPredictor(source.a, source.b, k - 1)]
    /\ dstage' = "paethDone"
    /\ UNCHANGED <<source, png, decoded, scanIn, rvars, gvars, bvars, cvars, pvars>>

SpecPaeth == PaethInit /\ [][CallPaethPredictor]_vars

(* parsePng on the file of an image, sound or damaged *)

\* Pixel i of a pattern: red, green, blue and opacity; gray images have
\* red = green = blue.
PixelOf(seed, i, gray) ==
    LET v == PatternByte(seed, i)
    IN  [r |-> v,
         g |-> IF gray THEN v ELSE (v * 3 + 40) % 256,
         b |-> IF gray THEN v ELSE 255 - v,
         a |-> (v * 5 + 128) % 256]

PixelsOf(seed, n, gray) == [i \in 1..n |-> PixelOf(seed, i, gray)]

\* The samples of the pixels in a colour type: gray, RGB, gray + alpha, RGBA.
SamplesOf(pixels, colorType) ==
    LET bpp == BytesPerPixel(colorType)
    IN  [k \in 1..(Len(pixels) * bpp) |->
            LET px == pixels[((k - 1) \div bpp) + 1]
                c == (k - 1) % bpp
            IN  IF colorType \in {0, 3} THEN px.r
                ELSE IF colorType = 4 THEN (IF c = 0 THEN px.r ELSE px.a)
                ELSE IF c = 0 THEN px.r
                ELSE IF c = 1 THEN px.g
                ELSE IF c = 2 THEN px.b
                ELSE px.a]

\* A 32-bit big-endian number below 65536.
UInt32BE(n) == <<0, 0, n \div 256, n % 256>>

\* A chunk: its declared length, type, data and a CRC the decoder skips.
ChunkOf(length, type, data) == UInt32BE(length) \o type \o data \o <<0, 0, 0, 0>>

\* What can be wrong with a file.  Sound files: "none", the data split over
\* two IDAT chunks, an ancillary chunk, bytes after the terminator.
SoundFiles == {"none", "splitData", "ancillary", "trailingBytes"}

Faults ==
    {"signature", "shortFile", "noHeader", "noData", "noTerminator",
     "dataLengthPastEnd", "terminatorLengthPastEnd", "cutInChunk",
     "bitDepth16", "interlaced", "palette", "filter5", "filter255"}

\* The file of an image.
EncodePng(src) ==
    LET colorType == IF src.fault = "palette" THEN 3 ELSE src.colorType
        samples == SamplesOf(src.pixels, colorType)
        stride == src.width * BytesPerPixel(colorType)
        filtered == FilterScanlines(samples, src.width, src.height,
                                    BytesPerPixel(colorType), src.filters)
        lastRow == (src.height - 1) * (stride + 1) + 1
        scanlines == IF src.fault = "filter5" THEN [filtered EXCEPT ![lastRow] = 5]
                     ELSE IF src.fault = "filter255" THEN [filtered EXCEPT ![1] = 255]
                     ELSE filtered
        zdata == DeflateSync(scanlines)
        header == ChunkOf(13, IhdrType,
                          UInt32BE(src.width) \o UInt32BE(src.height)
                              \o <<IF src.fault = "bitDepth16" THEN 16 ELSE 8,
                                   colorType, 0, 0,
                                   IF src.fault = "interlaced" THEN 1 ELSE 0>>)
        half == Len(zdata) \div 2
        data == IF src.fault = "splitData"
                THEN ChunkOf(half, IdatType, SubSeq(zdata, 1, half))
                         \o ChunkOf(Len(zdata) - half, IdatType,
                                    SubSeq(zdata, half + 1, Len(zdata)))
                ELSE IF src.fault = "dataLengthPastEnd"
                THEN ChunkOf(Len(zdata) + 40, IdatType, zdata)
                ELSE ChunkOf(Len(zdata), IdatType, zdata)
        terminator == IF src.fault = "terminatorLengthPastEnd"
                      THEN ChunkOf(1, IendType, <<>>)
                      ELSE ChunkOf(0, IendType, <<>>)
        text == ChunkOf(2, <<116, 69, 88, 116>>, <<104, 105>>)
        whole == PngSignature \o header \o data \o terminator
    IN  CASE src.fault = "signature" -> <<137, 80, 78, 71, 13, 10, 26, 11>>
                                        \o SubSeq(whole, 9, Len(whole))
          [] src.fault = "shortFile" -> SubSeq(PngSignature, 1, 7)
          [] src.fault = "noHeader" -> PngSignature \o data \o terminator
          [] src.fault = "noData" -> PngSignature \o header \o terminator
          [] src.fault = "noTerminator" -> PngSignature \o header \o data
          [] src.fault = "cutInChunk" -> SubSeq(whole, 1, Len(whole) - 14)
          [] src.fault = "ancillary" -> PngSignature \o header \o text \o data \o terminator
          [] src.fault = "trailingBytes" -> whole \o <<0, 0, 0, 9, 73>>
          [] OTHER -> whole

\* The image of a size, colour type, pattern and row filters, in a file
\* with a fault.
SourceOf(w, h, ct, f, seed, fault) ==
    [width |-> w, height |-> h, colorType |-> ct, filters |-> f, fault |-> fault,
     pixels |-> PixelsOf(seed, w * h, ct \in {0, 4})]

\* Sound files of every size, colour type, row filters and three patterns.
SoundSources ==
    UNION {{SourceOf(w, h, ct, f, seed, fault) :
                w \in 1..MaxDim, ct \in {0, 2, 4, 6}, f \in FilterChoices(h),
                seed \in {<<0, 85, 170>>, <<3, 251, 7>>, <<0, 0, 255>>},
                fault \in SoundFiles} : h \in 1..MaxDim}

\* Damaged files of every size and colour type, all rows with one filter.
DamagedSources ==
    {SourceOf(w, h, ct, [row \in 1..h |-> f], <<3, 251, 7>>, fault) :
        w \in 1..MaxDim, h \in 1..MaxDim, ct \in {0, 2, 4, 6}, f \in 0..4,
        fault \in Faults}

PngInit ==
    /\ BuilderFresh
    /\ CatalogIdle
    /\ PipelineIdle
    /\ RunsIdle
    /\ GeneratorIdle
    /\ dstage = "input"
    /\ source \in SoundSources \cup DamagedSources
    /\ png = EncodePng(source)
    /\ decoded = <<>>
    /\ scanIn = <<>>
    /\ scanOut = <<>>

CallParsePng ==
    /\ dstage = "input"
    /\ png # <<>>
    /\ decoded' = ParsePng(png)
    /\ dstage' = "done"
    /\ UNCHANGED <<source, png, scanIn, scanOut, rvars, gvars, bvars, cvars, pvars>>

SpecPng == PngInit /\ [][CallParsePng]_vars

-----------------------------------------------------------------------------
(* generateAll of the tile generator (src/src/generator.ts): validation,   *)
(* the output directory, one pass per tile, the manifest, the result.      *)

\* How many tiles a configuration holds at most.
MaxConfigTiles == 2

OutputDir == "out"

\* includesSvg(format), includesPng(format)
IncludesSvg(format) == format = "svg" \/ format = "svg,png"

IncludesPng(format) == format = "png" \/ format = "svg,png"

\* format ?? 'svg'
EffectiveFormat(format) == IF format = "undefined" THEN "svg" ELSE format

\* generateFilename(entry), generatePngFilename(entry)
GenerateFilename(entry) == NumStr(entry.number) \o entry.type \o ".svg"

GeneratePngFilename(entry) == NumStr(entry.number) \o entry.type \o ".png"

\* createManifestEntry: pngFilePath "" stands for undefined.
CreateManifestEntry(entry, outputDir, format) ==
    [id |-> entry.id,
     filePath |-> IF format = "png" THEN PathJoin(outputDir, GeneratePngFilename(entry))
                  ELSE PathJoin(outputDir, GenerateFilename(entry)),
     pngFilePath |-> IF format = "svg,png"
                     THEN PathJoin(outputDir, GeneratePngFilename(entry)) ELSE ""]

\* createManifest(config, outputDir, format), of the entries config.tiles
CreateManifest(entries, outputDir, format) ==
    [tileCount |-> Len(entries),
     tiles |-> [i \in 1..Len(entries) |->
                   CreateManifestEntry(entries[i], outputDir, format)]]

EmptyManifest == [tileCount |-> 0, tiles |-> <<>>]

GenerationError(tileId, type) == [tileId |-> tileId, type |-> type]

\* What goes wrong with a tile besides its icon.
Troubles ==
    {"none", "svgWriteFails", "pngConvertFails", "pngWriteFails", "bothWritesFail",
     "renderThrows"}

\* The inner try around loadIcon: the errors it pushes.
IconErrors(entry) ==
    IF entry.iconLoads THEN <<>> ELSE <<GenerationError(entry.id, "icon_not_found")>>

\* The SVG branch of a pass: <<errors pushed, tileWrittenSuccessfully>>.
SvgBranch(entry, format) ==
    IF ~IncludesSvg(format) THEN <<<<>>, FALSE>>
    ELSE IF entry.trouble \in {"svgWriteFails", "bothWritesFail"}
    THEN <<<<GenerationError(entry.id, "output_error")>>, FALSE>>
    ELSE <<<<>>, TRUE>>

\* The PNG branch of a pass: <<errors pushed, tileWrittenSuccessfully>>.
PngBranch(entry, format) ==
    IF ~IncludesPng(format) THEN <<<<>>, FALSE>>
    ELSE IF entry.trouble = "pngConvertFails"
    THEN <<<<GenerationError(entry.id, "png_conversion_error")>>, FALSE>>
    ELSE IF entry.trouble \in {"pngWriteFails", "bothWritesFail"}
    THEN <<<<GenerationError(entry.id, "output_error")>>, FALSE>>
    ELSE <<<<>>, TRUE>>

\* A pass after the icon was dealt with: generateTile, the branches of the
\* formats; a throw outside the inner try blocks ends in the outer catch.
PassAfterIcon(entry, format) ==
    IF entry.trouble = "renderThrows"
    THEN [errors |-> <<GenerationError(entry.id, "output_error")>>, written |-> FALSE]
    ELSE [errors |-> SvgBranch(entry, format)[1] \o PngBranch(entry, format)[1],
          written |-> SvgBranch(entry, format)[2] \/ PngBranch(entry, format)[2]]

\* Faulty variant: a tile whose icon cannot be loaded is given up.
TilePassIconFatal(entry, format) ==
    IF entry.iconLoads THEN PassAfterIcon(entry, format)
    ELSE [errors |-> IconErrors(entry), written |-> FALSE]

\* One pass of the tile loop: the errors it pushes and whether it counts the
\* tile as generated.
TilePass(entry, format) ==
    [errors |-> IconErrors(entry) \o PassAfterIcon(entry, format).errors,
     written |-> PassAfterIcon(entry, format).written]

(* generateAll on a configuration *)

Formats == {"undefined", "svg", "png", "svg,png"}

\* Entry i of a configuration: tile i of the characters, with what happens to
\* its icon and its files.
EntryOf(i, iconLoads, trouble) ==
    [id |-> NumStr(i) \o "m", type |-> "m", number |-> i, iconLoads |-> iconLoads,
     trouble |-> trouble]

\* The configurations that pass validateTileConfig: up to n entries.
RECURSIVE ValidTiles(_)
ValidTiles(n) ==
    IF n = 0 THEN {<<>>}
    ELSE ValidTiles(n - 1)
            \cup {Append(q, EntryOf(n, iconLoads, trouble)) :
                     q \in {r \in ValidTiles(n - 1) : Len(r) = n - 1},
                     iconLoads \in BOOLEAN, trouble \in Troubles}

\* How the file system answers outside the tile loop.
Weather == {"fair", "mkdirFails", "manifestWriteFails"}

ValidJobs ==
    {[valid |-> TRUE, validationErrors |-> <<>>, tiles |-> entries, format |-> format,
      weather |-> weather] :
        entries \in ValidTiles(MaxConfigTiles), format \in Formats, weather \in Weather}

\* Configurations validateTileConfig rejects, with the tile ids of its errors.
InvalidJobs ==
    {[valid |-> FALSE, validationErrors |-> ids, tiles |-> <<>>, format |-> format,
      weather |-> "fair"] :
        ids \in {<<"config">>, <<"1m", "1m", "config">>}, format \in Formats}

GInit ==
    /\ BuilderFresh
    /\ CatalogIdle
    /\ PipelineIdle
    /\ DecoderIdle
    /\ RunsIdle
    /\ gstage = "start"
    /\ job \in ValidJobs \cup InvalidJobs
    /\ genIdx = 0
    /\ generated = 0
    /\ failed = 0
    /\ errors = <<>>
    /\ result = <<>>

notGenerator == <<bvars, cvars, pvars, dvars, rvars>>

\* 1. validateTileConfig finds errors: return them, nothing generated.
ValidationFails ==
    /\ gstage = "start"
    /\ ~job.valid
    /\ result' = [success |-> FALSE, generated |-> 0,
                  failed |-> Len(job.validationErrors),
                  errors |-> [i \in 1..Len(job.validationErrors) |->
                                 GenerationError(job.validationErrors[i], "unknown")],
                  manifest |-> EmptyManifest, format |-> EffectiveFormat(job.format)]
    /\ gstage' = "done"
    /\ UNCHANGED <<job, genIdx, generated, failed, errors, notGenerator>>

\* 2. ensureOutputDirectory throws: return one output error.
OutputDirFails ==
    /\ gstage = "start"
    /\ job.valid
    /\ job.weather = "mkdirFails"
    /\ result' = [success |-> FALSE, generated |-> 0, failed |-> 1,
                  errors |-> <<GenerationError("output_dir", "output_error")>>,
                  manifest |-> EmptyManifest, format |-> EffectiveFormat(job.format)]
    /\ gstage' = "done"
    /\ UNCHANGED <<job, genIdx, generated, failed, errors, notGenerator>>

\* The configuration is valid and the output directory exists: enter the loop.
StartTiles ==
    /\ gstage = "start"
    /\ job.valid
    /\ job.weather # "mkdirFails"
    /\ gstage' = "tiles"
    /\ genIdx' = 1
    /\ UNCHANGED <<job, generated, failed, errors, result, notGenerator>>

\* 3. One pass of the tile loop.
GenerateOneTile ==
    /\ gstage = "tiles"
    /\ genIdx <= Len(job.tiles)
    /\ LET pass == TilePass(job.tiles[genIdx], EffectiveFormat(job.format))
       IN  /\ errors' = errors \o pass.errors
           /\ generated' = IF pass.written THEN generated + 1 ELSE generated
           /\ failed' = IF pass.written THEN failed ELSE failed + 1
    /\ genIdx' = genIdx + 1
    /\ UNCHANGED <<gstage, job, result, notGenerator>>

\* 4. and 5. The manifest is made and written, the result returned.
ReturnResult ==
    /\ gstage = "tiles"
    /\ genIdx > Len(job.tiles)
    /\ errors' = errors \o (IF job.weather = "manifestWriteFails"
                            THEN <<GenerationError("manifest", "output_error")>>
                            ELSE <<>>)
    /\ result' = [success |-> failed = 0, generated |-> generated, failed |-> failed,
                  errors |-> errors',
                  manifest |-> CreateManifest(job.tiles, OutputDir,
                                              EffectiveFormat(job.format)),
                  format |-> EffectiveFormat(job.format)]
    /\ gstage' = "done"
    /\ UNCHANGED <<job, genIdx, generated, failed, notGenerator>>

GNext ==
    \/ ValidationFails
    \/ OutputDirFails
    \/ StartTiles
    \/ GenerateOneTile
    \/ ReturnResult

SpecGenerate == GInit /\ [][GNext]_vars

-----------------------------------------------------------------------------
(* A reader of the serialized document: what a conforming reader finds in  *)
(* the bytes, used to state the properties of the output.                  *)

\* The maximal run of digits of s that starts at position p (1-based).
DigitsFrom(s, p) ==
    LET e == CHOOSE k \in (p - 1)..MinOf(Len(s), p + 15) :
                 /\ \A j \in p..k : IsDigit(Char(s, j))
                 /\ (k = Len(s) \/ ~IsDigit(Char(s, k + 1)))
    IN  SubSeq(s, p, e)

\* The maximal run of digits of s that ends at position e (1-based).
DigitsBefore(s, e) ==
    LET b == CHOOSE k \in MaxOf(1, e - 15)..(e + 1) :
                 /\ \A j \in k..e : IsDigit(Char(s, j))
                 /\ (k = 1 \/ ~IsDigit(Char(s, k - 1)))
    IN  SubSeq(s, b, e)

\* Whether text t stands in s at byte offset off (0-based).
TextAt(s, off, t) ==
    off >= 0 /\ off + Len(t) <= Len(s) /\ SubSeq(s, off + 1, off + Len(t)) = t

\* The startxref value: the number before the closing "\n%%EOF\n".
StartXrefOf(out) == ParseNat(DigitsBefore(out, Len(out) - 7))

\* The entry count of the cross-reference header "xref\n0 <count>\n".
XrefCountText(out) == DigitsFrom(out, StartXrefOf(out) + 8)

XrefCountOf(out) == ParseNat(XrefCountText(out))

\* Byte offset of the 20-byte cross-reference entry of object id.
XrefEntryAt(out, id) == StartXrefOf(out) + 7 + Len(XrefCountText(out)) + 1 + 20 * id

XrefOffsetOf(out, id) ==
    ParseNat(SubSeq(out, XrefEntryAt(out, id) + 1, XrefEntryAt(out, id) + 10))

-----------------------------------------------------------------------------
(* Claims about PdfBuilder, under SpecBuilder *)

\* C1: after any registrations and setObject overwrites, build emits for every
\* registered id i a cross-reference entry whose 10-digit offset is the byte
\* position where "{i} 0 obj" begins (followed by that object's body), and
\* startxref is the byte position where the xref section begins.
C1_XrefOffsetsExact ==
    output # "" =>
        /\ \A i \in 1..Len(objects) :
              LET off == XrefOffsetOf(output, i)
                  ent == XrefEntryAt(output, i)
              IN  /\ \A j \in 1..10 : IsDigit(Char(output, ent + j))
                  /\ TextAt(output, ent + 10, " 00000 n \n")
                  /\ TextAt(output, off - 1, "\n")
                  /\ TextAt(output, off, NumStr(i) \o " 0 obj\n" \o objects[i] \o "\nendobj\n")
        /\ TextAt(output, StartXrefOf(output) - 1, "\nxref\n0 ")
        /\ TextAt(output, Len(output) - 7 - Len(NumStr(StartXrefOf(output))) - 10,
                  "startxref\n")

\* C1 witness: a built table of three objects in which a placeholder was
\* overwritten by a body of another length.
C1_Witness ==
    /\ output # ""
    /\ Len(objects) >= 3
    /\ setLog # <<>>
    /\ setLog[2] = PlaceholderBody
    /\ Len(objects[setLog[1]]) > Len(PlaceholderBody)
    /\ setLog[1] < Len(objects)

\* C3: the k-th registration call returns id k whatever setObject calls came
\* in between, so ids are dense (1..k) and increasing; an overwritten
\* placeholder keeps its id (the table keeps its length, the body is at id).
C3_IdsDense ==
    /\ lastId = regCount
    /\ Len(objects) = regCount
    /\ setLog # <<>> =>
          /\ setLog[1] \in 1..Len(objects)
          /\ objects[setLog[1]] \in SetBodies

\* C3 witness: a registration that followed a setObject on a placeholder.
C3_Witness ==
    /\ setLog # <<>>
    /\ setLog[2] = PlaceholderBody
    /\ regCount > setLog[3]
    /\ lastId = 3

-----------------------------------------------------------------------------
(* Claims about the tile catalog *)

\* What the statements below read off a label of digits and one suit letter.
LabelSuit(label) == Char(label, Len(label))

LabelRank(label) == ParseNat(SubSeq(label, 1, Len(label) - 1))

SuitSequence == <<"m", "p", "s", "z">>

HonorPrintSequence == <<5, 6, 7, 1, 2, 3, 4>>

PosIn(seq, x) == CHOOSE k \in 1..Len(seq) : seq[k] = x

LabelsOf(list) == [i \in 1..Len(list) |-> list[i].label]

\* C6: sortTileFiles returns the files it was given, ordered by suit in the
\* order m, p, s, z, within m, p, s by ascending rank and within z in the
\* print order 5, 6, 7, 1, 2, 3, 4, whatever the order of the input; the tiles
\* {5z, 1z, 9m, 1m, 3p} come out as 1m, 9m, 3p, 5z, 1z.
C6_CatalogOrder ==
    cstage = "done" =>
        /\ Len(catalog) = Len(files)
        /\ Range(catalog) = Range(files)
        /\ \A i, j \in 1..Len(catalog) :
              i < j =>
                LET a == catalog[i].label
                    b == catalog[j].label
                IN  /\ PosIn(SuitSequence, LabelSuit(a)) <= PosIn(SuitSequence, LabelSuit(b))
                    /\ (LabelSuit(a) = LabelSuit(b) /\ LabelSuit(a) # "z")
                          => LabelRank(a) < LabelRank(b)
                    /\ (LabelSuit(a) = "z" /\ LabelSuit(b) = "z")
                          => PosIn(HonorPrintSequence, LabelRank(a))
                                < PosIn(HonorPrintSequence, LabelRank(b))
        /\ Range(LabelsOf(files)) = SortExample
              => LabelsOf(catalog) = <<"1m", "9m", "3p", "5z", "1z">>

\* C6 witness: the documented example, given in the order 5z, 1z, 9m, 1m, 3p.
C6_Witness ==
    /\ cstage = "done"
    /\ LabelsOf(files) = <<"5z", "1z", "9m", "1m", "3p">>
    /\ LabelsOf(catalog) = <<"1m", "9m", "3p", "5z", "1z">>

Sign(n) == IF n < 0 THEN -1 ELSE IF n > 0 THEN 1 ELSE 0

DotPositions(name) == {k \in 1..Len(name) : Char(name, k) = "."}

StemOf(name) ==
    IF DotPositions(name) = {} THEN name
    ELSE SubSeq(name, 1, (CHOOSE k \in DotPositions(name) :
                             \A j \in DotPositions(name) : j <= k) - 1)

ExtensionOf(name) == SubSeq(name, Len(StemOf(name)) + 1, Len(name))

\* One or more ASCII digits, then exactly one symbol of suits.
MatchesGrammar(stem, suits) ==
    /\ Len(stem) >= 2
    /\ \A j \in 1..(Len(stem) - 1) : Char(stem, j) \in Digits
    /\ Char(stem, Len(stem)) \in suits

PathsOf(list) == {list[i].filePath : i \in 1..Len(list)}

PathsOfEntries(entries) == {PathJoin(InputDir, en.name) : en \in entries}

LowerSuitFile(entry) ==
    entry.isFile /\ MatchesGrammar(StemOf(entry.name), {"m", "p", "s", "z"})

AnyCaseSuitPng(entry) ==
    /\ entry.isFile
    /\ ExtensionOf(entry.name) \in {".png", ".PNG"}
    /\ MatchesGrammar(StemOf(entry.name), {"m", "p", "s", "z", "M", "P", "S", "Z"})

\* C8 as stated: findPngFiles returns exactly the regular files whose name
\* minus extension is one or more digits and one suit symbol of {m, p, s, z}.
C8_Original ==
    cstage = "done" /\ dirEntries # <<>> =>
        PathsOf(catalog) = PathsOfEntries({en \in Range(dirEntries) : LowerSuitFile(en)})

\* C8 as amended: findPngFiles returns exactly the regular files whose
\* extension is .png (in either case) and whose name minus extension is one or
\* more digits and one suit letter m, p, s, z in either case; each once, each
\* with a parsed identity.
C8_PngFilesWithIdentity ==
    cstage = "done" /\ dirEntries # <<>> =>
        /\ PathsOf(catalog) = PathsOfEntries({en \in Range(dirEntries) : AnyCaseSuitPng(en)})
        /\ Len(catalog) = Cardinality(PathsOf(catalog))
        /\ \A i \in 1..Len(catalog) :
              MatchesGrammar(catalog[i].label, {"m", "p", "s", "z", "M", "P", "S", "Z"})

\* C8 witness: a tile file is kept while a double extension and a directory
\* named like a tile are dropped.
C8_Witness ==
    /\ cstage = "done"
    /\ {dirEntries[i].name : i \in 1..Len(dirEntries)} = {"1m.svg.png", "2m.png", "1M.png"}
    /\ LabelsOf(catalog) = <<"1M">>

\* C9: every tile file of the catalog has a rank in 1..9 when its suit is m, p
\* or s, and in 1..7 when its suit is z.
C9_RanksInRange ==
    cstage = "done" =>
        \A i \in 1..Len(catalog) :
            LET rank == LabelRank(catalog[i].label)
                suit == ToLower(LabelSuit(catalog[i].label))
            IN  IF suit = "z" THEN rank \in 1..7 ELSE rank \in 1..9

-----------------------------------------------------------------------------
(* Claims about createPdf, under SpecPdf *)

\* The first position from k on at which pat stands in text (0: nowhere).
Occurrences(text, pat, k) ==
    {j \in k..(Len(text) - Len(pat) + 1) : SubSeq(text, j, j + Len(pat) - 1) = pat}

FirstAt(text, pat, k) ==
    IF Occurrences(text, pat, k) = {} THEN 0
    ELSE CHOOSE j \in Occurrences(text, pat, k) :
             \A i \in Occurrences(text, pat, k) : j <= i

\* How often pat stands in text.
CountOf(text, pat) == Cardinality(Occurrences(text, pat, 1))

\* The dictionary of an object: of a stream object, what precedes its stream.
DictOf(id) ==
    IF id \in streamIds
    THEN SubSeq(objects[id], 1, FirstAt(objects[id], "\nstream\n", 1) - 1)
    ELSE objects[id]

\* The payload of a stream object: between "stream\n" and "\nendstream".
PayloadOf(id) ==
    SubSeq(objects[id], FirstAt(objects[id], "\nstream\n", 1) + 8, Len(objects[id]) - 10)

\* The ids N of the references "N 0 R" of a text.
RefsIn(text) ==
    {ParseNat(DigitsBefore(text, k - 1)) :
        k \in {j \in Occurrences(text, " 0 R", 2) : IsDigit(Char(text, j - 1))}}

\* Where the trailer begins: after the last cross-reference entry.
TrailerAt(out) == XrefEntryAt(out, XrefCountOf(out))

TrailerSizeText(out) == DigitsFrom(out, TrailerAt(out) + 18)

TrailerRootAt(out) == TrailerAt(out) + 17 + Len(TrailerSizeText(out)) + 7

TrailerRootText(out) == DigitsFrom(out, TrailerRootAt(out) + 1)

Serialized == pc \in {"built", "done"}

AtBuild == pc \in {"build", "built", "done"}

HasKind(kind) == \E i \in 1..Len(tiles) : disk[i] = kind

\* C2: when createPdf calls build, every reference "N 0 R" of every object
\* dictionary (/SMask, /Parent, /Contents, XObject resources, /Kids, /Pages)
\* and the /Root of the trailer names a registered id, 1 <= N <= Len(objects).
C2_ReferencesResolve ==
    /\ AtBuild =>
          /\ \A id \in 1..Len(objects) : RefsIn(DictOf(id)) \subseteq 1..Len(objects)
          /\ catalogId \in 1..Len(objects)
    /\ Serialized =>
          /\ TextAt(output, TrailerRootAt(output) - 7, " /Root ")
          /\ TrailerRootText(output) # ""
          /\ ParseNat(TrailerRootText(output)) \in 1..Len(objects)

\* C2 witness: build is called for five tiles, with and without opacity
\* planes, guides on: every kind of reference is present.
C2_Witness ==
    /\ pc = "build"
    /\ Len(tiles) = 5
    /\ showGuides
    /\ HasKind("alpha")
    /\ HasKind("opaque")
    /\ \E id \in streamIds : RefsIn(DictOf(id)) # {}
    /\ Cardinality(RefsIn(objects[pagesId])) = 2
    /\ RefsIn(objects[catalogId]) = {pagesId}

\* C4: the /Length a stream object's dictionary declares is the number of
\* bytes between "stream\n" and "\nendstream" of its body, for every soft
\* mask, RGB image and page content stream.
C4_StreamLengthExact ==
    \A id \in streamIds :
        LET body == objects[id]
            dict == DictOf(id)
            at == FirstAt(dict, "/Length ", 1)
        IN  /\ FirstAt(body, "\nstream\n", 1) > 0
            /\ SubSeq(body, Len(body) - 9, Len(body)) = "\nendstream"
            /\ at > 0
            /\ DigitsFrom(dict, at + 8) # ""
            /\ ParseNat(DigitsFrom(dict, at + 8)) = Len(PayloadOf(id))

\* C4 witness: a soft mask, an RGB image and a page content stream with guides
\* are registered.
C4_Witness ==
    /\ pc = "done"
    /\ showGuides
    /\ HasKind("alpha")
    /\ \E a, b, c \in streamIds :
          /\ FirstAt(objects[a], "/DeviceGray", 1) > 0
          /\ FirstAt(objects[b], "/DeviceRGB", 1) > 0
          /\ FirstAt(objects[c], "<< /Length ", 1) = 1
          /\ Len(PayloadOf(c)) > 400

\* C5: the trailer build writes names as /Size the entry count of the
\* cross-reference header, one per registered object plus the free entry 0,
\* and as /Root the id given to build, which in createPdf is the catalog, the
\* object registered last.
C5_TrailerSizeAndRoot ==
    Serialized =>
        /\ TextAt(output, XrefEntryAt(output, 0), "0000000000 65535 f \n")
        /\ TextAt(output, TrailerAt(output), "trailer\n<< /Size ")
        /\ TrailerSizeText(output) # ""
        /\ ParseNat(TrailerSizeText(output)) = XrefCountOf(output)
        /\ XrefCountOf(output) = Len(objects) + 1
        /\ TextAt(output, TrailerRootAt(output) - 7, " /Root ")
        /\ TrailerRootText(output) # ""
        /\ ParseNat(TrailerRootText(output)) = rootArg
        /\ TextAt(output, TrailerRootAt(output) + Len(TrailerRootText(output)),
                  " 0 R >>\nstartxref\n")
        /\ rootArg = catalogId
        /\ catalogId = Len(objects)
        /\ TextAt(objects[catalogId], 0, "<< /Type /Catalog ")

\* C5 witness: a document of at least ten objects (a two-digit /Size) is built.
C5_Witness ==
    /\ pc = "built"
    /\ Len(objects) >= 10
    /\ Len(TrailerSizeText(output)) = 2

PagesEmitted == pc \in {"tree", "build", "built", "done"}

\* The paint-image instructions of the content stream of page p.
PaintCount(p) == CountOf(PayloadOf(pageLog[p].contentId), " Do\n")

\* The tiles a page holds: the images its resource table names.
PageTileCount(p) == CountOf(objects[pageLog[p].pageId], "/Im")

\* C10: n >= 1 tiles give ceil(n/4) pages; every page but the last holds 4
\* tiles, the last n - 4*(pages - 1), between 1 and 4; a page of k tiles has
\* 4*k paint-image instructions; 5 tiles give 2 pages with 16 and 4.
C10_Pagination ==
    PagesEmitted =>
        LET n == Len(tiles)
            pages == Len(pageLog)
        IN  /\ n >= 1
            /\ pages = (n + 3) \div 4
            /\ Len(pageIds) = pages
            /\ \A p \in 1..pages :
                  /\ Len(pageLog[p].rows) = (IF p < pages THEN 4 ELSE n - 4 * (pages - 1))
                  /\ Len(pageLog[p].rows) \in 1..4
                  /\ PageTileCount(p) = Len(pageLog[p].rows)
                  /\ PaintCount(p) = 4 * Len(pageLog[p].rows)
            /\ n = 5 => pages = 2 /\ PaintCount(1) = 16 /\ PaintCount(2) = 4

\* C10 witness: five tiles are laid out on two pages of 16 and 4 paint
\* instructions.
C10_Witness ==
    /\ pc = "done"
    /\ Len(tiles) = 5
    /\ Len(pageLog) = 2
    /\ PaintCount(1) = 16
    /\ PaintCount(2) = 4

\* The k-th smallest member of a set of numbers.
NthOf(S, k) == CHOOSE x \in S : Cardinality({y \in S : y < x}) = k - 1

\* The content stream of page p.
ContentOf(p) == PayloadOf(pageLog[p].contentId)

\* Where the paint-image instructions stand in a content stream.
PaintPositions(payload) == Occurrences(payload, "/Im", 1)

\* The image name of the paint-image instruction at position at.
PaintedName(payload, at) == "Im" \o DigitsFrom(payload, at + 3)

\* The paint-image instruction at position at follows a placement at height y.
PaintedAtHeight(payload, at, y) ==
    LET line == " " \o ToFixed4(y) \o " cm\n"
    IN  TextAt(payload, at - 1 - Len(line), line)

\* The object a page body binds an image name to (0: none).
ResourceOf(body, name) ==
    LET at == FirstAt(body, "/" \o name \o " ", 1)
    IN  IF at = 0 THEN 0 ELSE ParseNat(DigitsFrom(body, at + Len(name) + 2))

\* C11: files are read one at a time in catalog order; image objects get
\* ascending ids in catalog order and hold the planes of their tile; page p
\* (0-based) paints the catalog tiles 4p .. 4p+3, each four times, the k-th
\* of them on row k counted from the top, through the image object of that
\* tile; the tiles of all pages, in page order, are the catalog.
C11_CatalogOrder ==
    /\ Len(readLog) <= Len(tiles)
    /\ \A i \in 1..Len(readLog) : readLog[i] = tiles[i].filePath
    /\ pc = "embed" => Len(readLog) = idx - 1 /\ Len(imageRefs) = idx - 1
    /\ \A i \in 1..Len(imageRefs) :
          /\ imageRefs[i].name = "Im" \o NumStr(i)
          /\ imageRefs[i].objectId \in streamIds
          /\ PayloadOf(imageRefs[i].objectId) = ParsePngResult(disk[i]).rgbDeflated
          /\ \A j \in 1..Len(imageRefs) :
                i < j => imageRefs[i].objectId < imageRefs[j].objectId
    /\ \A p \in 1..Len(pageLog) :
          LET payload == ContentOf(p)
              body == objects[pageLog[p].pageId]
              positions == PaintPositions(payload)
          IN  /\ \A r \in 1..Len(pageLog[p].rows) :
                    pageLog[p].rows[r] = tiles[4 * (p - 1) + r]
              /\ Cardinality(positions) = 4 * Len(pageLog[p].rows)
              /\ \A k \in 1..Cardinality(positions) :
                    LET row == (k - 1) \div 4
                        g == 4 * (p - 1) + row + 1
                        at == NthOf(positions, k)
                    IN  /\ PaintedName(payload, at) = "Im" \o NumStr(g)
                        /\ PaintedAtHeight(payload, at, CellY(row))
                        /\ ResourceOf(body, "Im" \o NumStr(g)) = imageRefs[g].objectId
    /\ \A r \in 0..(RowsPerPage - 2) : CellY(r + 1) < CellY(r)
    /\ PagesEmitted =>
          /\ Len(imageRefs) = Len(tiles)
          /\ \A i \in 1..Len(tiles) :
                pageLog[(i - 1) \div 4 + 1].rows[((i - 1) % 4) + 1] = tiles[i]

\* C11 witness: five tiles, the second with an opacity plane, are written on
\* two pages; the second page paints the fifth tile.
C11_Witness ==
    /\ pc = "done"
    /\ Len(tiles) = 5
    /\ disk[2] = "alpha"
    /\ disk[5] = "opaque"
    /\ Len(pageLog) = 2
    /\ PaintedName(ContentOf(2), FirstAt(ContentOf(2), "/Im", 1)) = "Im5"
    /\ imageRefs[5].objectId = 6

\* The catalog index of the first file read so far that cannot be decoded
\* (0: none).
FirstBadRead ==
    LET bad == {i \in 1..Len(readLog) : disk[i] = "bad"}
    IN  IF bad = {} THEN 0 ELSE NthOf(bad, 1)

\* C12: once a file that cannot be decoded was read, the run has failed: that
\* file is the last one read, no image stands for it, nothing was serialized
\* and the output file was not written; a written output file means every
\* catalog file was decoded.
C12_DecodeFailureAborts ==
    /\ FirstBadRead # 0 =>
          /\ pc = "failed"
          /\ Len(readLog) = FirstBadRead
          /\ Len(imageRefs) = FirstBadRead - 1
          /\ pagesId = 0
          /\ output = ""
          /\ outFile = ""
    /\ (output # "" \/ outFile # "" \/ pc \in {"built", "done"}) =>
          /\ Len(readLog) = Len(tiles)
          /\ \A i \in 1..Len(tiles) : disk[i] # "bad"

\* C12 witness: the third of five files cannot be decoded; two images are
\* registered, the run has failed, the fourth file can be decoded but was
\* not read.
C12_Witness ==
    /\ pc = "failed"
    /\ Len(tiles) = 5
    /\ disk[3] = "bad"
    /\ disk[4] = "opaque"
    /\ Len(readLog) = 3
    /\ Len(imageRefs) = 2
    /\ Len(objects) >= 2
    /\ outFile = ""

-----------------------------------------------------------------------------
(* Claims about the PNG decoder *)

\* Whether rebuilding byte x of a row wraps around 256.
Wraps(call, raw, row, x) ==
    LET stride == call.width * call.bytesPerPixel
    IN  call.inflated[row * (stride + 1) + x + 2]
            + Prediction(raw, call.inflated[row * (stride + 1) + 1], stride,
                         call.bytesPerPixel, row, x) >= 256

\* C16: for every size, 1 to 4 bytes per pixel, sample content and filter
\* selector 0..4 per row, unfilterScanlines on the forward-filtered samples
\* returns the samples: every byte is the filtered byte plus the prediction
\* from the rebuilt left, up and upper-left bytes (0 outside the image),
\* modulo 256.
C16_UnfilterInvertsFilter ==
    (dstage = "done" /\ scanOut # <<>>) =>
        LET stride == scanIn.width * scanIn.bytesPerPixel
        IN  /\ scanOut.ok
            /\ scanOut.raw = source.raw
            /\ Len(scanOut.raw) = scanIn.width * scanIn.height * scanIn.bytesPerPixel
            /\ \A row \in 0..(scanIn.height - 1) : \A x \in 0..(stride - 1) :
                  /\ scanOut.raw[row * stride + x + 1] \in 0..255
                  /\ scanOut.raw[row * stride + x + 1] =
                        (scanIn.inflated[row * (stride + 1) + x + 2]
                           + Prediction(scanOut.raw, source.filters[row + 1], stride,
                                        scanIn.bytesPerPixel, row, x)) % 256

\* C16 witness: a 2x2 image of 3 bytes per pixel, first row filtered by the
\* left neighbour, second by the Paeth predictor, is rebuilt, a byte of each
\* row by wrapping around 256.
C16_Witness ==
    /\ dstage = "done"
    /\ scanOut # <<>>
    /\ scanIn.width = 2
    /\ scanIn.height = 2
    /\ scanIn.bytesPerPixel = 3
    /\ source.filters = <<1, 4>>
    /\ scanOut.raw = source.raw
    /\ \E x \in 0..5 : Wraps(scanIn, scanOut.raw, 0, x)
    /\ \E x \in 0..5 : Wraps(scanIn, scanOut.raw, 1, x)

Parsed == dstage = "done" /\ decoded # <<>>

\* C14 as stated: parsePng fails whenever the file lacks its header chunk,
\* any data chunk, or its terminator chunk.
C14_MandatoryChunks ==
    (Parsed /\ source.fault \in {"noHeader", "noData", "noTerminator"}) => ~decoded.ok

\* The error parsePng is to end in for a fault.
ErrorOf(fault) ==
    CASE fault \in {"signature", "shortFile"} -> "signature"
      [] fault \in {"dataLengthPastEnd", "terminatorLengthPastEnd", "cutInChunk"}
            -> "chunkLength"
      [] fault = "bitDepth16" -> "bitDepth"
      [] fault = "interlaced" -> "interlace"
      [] fault = "palette" -> "colorType"
      [] fault \in {"filter5", "filter255"} -> "filter"
      [] OTHER -> ""

ColourOf(pixels) ==
    [k \in 1..(Len(pixels) * 3) |->
        LET px == pixels[((k - 1) \div 3) + 1]
        IN  IF (k - 1) % 3 = 0 THEN px.r ELSE IF (k - 1) % 3 = 1 THEN px.g ELSE px.b]

\* The opacity plane of the source pixels.
OpacityOf(pixels) == [k \in 1..Len(pixels) |-> pixels[k].a]

\* C17: for a sound file of colour type 0, 2, 4 or 6, parsePng returns the
\* size, bit depth 8 and a colour plane that inflates to width*height RGB
\* triples, those of the source pixels (gray gives R = G = B); for types 4
\* and 6, and only for them, an opacity plane that inflates to the
\* width*height alpha values of the source.
C17_PlanesMatchSource ==
    (Parsed /\ source.fault \in SoundFiles) =>
        LET rgb == InflateSync(decoded.rgbDeflated)
            alpha == InflateSync(decoded.alphaDeflated)
            n == source.width * source.height
        IN  /\ decoded.ok
            /\ decoded.width = source.width
            /\ decoded.height = source.height
            /\ decoded.bitDepth = 8
            /\ rgb.ok
            /\ Len(rgb.data) = n * 3
            /\ rgb.data = ColourOf(source.pixels)
            /\ source.colorType \in {0, 4} =>
                  \A i \in 0..(n - 1) :
                      /\ rgb.data[3 * i + 1] = rgb.data[3 * i + 2]
                      /\ rgb.data[3 * i + 2] = rgb.data[3 * i + 3]
            /\ decoded.hasAlpha <=> source.colorType \in {4, 6}
            /\ decoded.hasAlpha =>
                  /\ alpha.ok
                  /\ Len(alpha.data) = n
                  /\ alpha.data = OpacityOf(source.pixels)
            /\ ~decoded.hasAlpha => decoded.alphaDeflated = <<>>

\* C17 witness: a 2x2 gray + alpha image, rows filtered by Paeth and by
\* average, its data in two chunks, is decoded; its opacity differs from its
\* gray values.
C17_Witness ==
    /\ Parsed
    /\ source.fault = "splitData"
    /\ source.colorType = 4
    /\ source.width = 2
    /\ source.height = 2
    /\ source.filters = <<4, 3>>
    /\ decoded.ok
    /\ decoded.hasAlpha
    /\ InflateSync(decoded.alphaDeflated).data = OpacityOf(source.pixels)
    /\ \E i \in 1..4 : source.pixels[i].a # source.pixels[i].r
    /\ \E i, j \in 1..4 : source.pixels[i].r # source.pixels[j].r

-----------------------------------------------------------------------------
(* Claims about repeated runs, under SpecTwice *)

RunEnded == pc \in {"done", "failed"}

\* C18 as stated: a second run on the same files, guides disabled, whatever
\* the order in which the directory lists them, ends as the first run did
\* and writes the same bytes.
C18_SameBytesAnyOrder ==
    (runNo = 2 /\ RunEnded) =>
        /\ pc = firstRun.pc
        /\ outFile = firstRun.outFile

-----------------------------------------------------------------------------
(* Claims about generateAll, under SpecGenerate *)

\* How many errors of a type the result holds for a tile.
ErrorCount(tileId, type) ==
    Cardinality({i \in 1..Len(result.errors) :
                    result.errors[i] = GenerationError(tileId, type)})

Returned == gstage = "done" /\ result # <<>>

\* The loop was run: the configuration was valid and the directory made.
LoopRan == Returned /\ job.valid /\ job.weather # "mkdirFails"

\* Whether some file of the tile is written, whatever became of its icon.
OnlyIconWrong(entry) ==
    \/ entry.trouble = "none"
    \/ entry.trouble = "svgWriteFails" /\ EffectiveFormat(job.format) \in {"png", "svg,png"}
    \/ entry.trouble \in {"pngConvertFails", "pngWriteFails"}
          /\ EffectiveFormat(job.format) \in {"svg", "svg,png"}

C20_ManifestCountsGenerated ==
    (Returned /\ job.valid) =>
        /\ result.manifest.tileCount = result.generated
        /\ Len(result.manifest.tiles) = result.generated

-----------------------------------------------------------------------------
(* Claims about the pages createPdf lays out, under SpecPdf *)

\* The instruction list of page p, as createPdf collected it.
Cmds(p) == pageLog[p].commands

\* The content stream of page p is its instruction list, a line each.
StreamIsCommands(p) ==
    /\ pageLog[p].contentId \in streamIds
    /\ ContentOf(p) = Join(Cmds(p), "\n") \o "\n"

\* A length of the layout, given in millimetres, as the stream writes it.
MmText(mm) == ToFixed4(MmToPt(mm))

\* The transform of a cell whose left edge is xMm from the page's left and
\* whose top edge is topMm from the page's top.
CellTransform(xMm, topMm) ==
    MmText(CellWidthMm) \o " 0 0 " \o MmText(CellHeightMm) \o " " \o MmText(xMm)
        \o " " \o MmText(PageHeightMm - topMm - CellHeightMm) \o " cm"

\* The positions of the instruction list at which a line stands.
LinesEqual(cmds, line) == {i \in 1..Len(cmds) : cmds[i] = line}

\* C21: on every page the tile at position r of the page's group is painted
\* exactly 4 times, the copy of column c with its left edge at
\* marginLeft + c*(cellWidth + gap) and its top edge at
\* marginTop + r*(cellHeight + gap), written with a bottom-left origin, the
\* copies of a row from left to right, each scaled to cellWidth by cellHeight.
C21_RowOfFourCopies ==
    \A p \in 1..Len(pageLog) :
        LET cmds == Cmds(p)
            k == Len(pageLog[p].rows)
        IN  /\ StreamIsCommands(p)
            /\ Len(cmds) >= 16 * k
            /\ \A r \in 0..(k - 1) :
                  LET paint == "/" \o ImageName(4 * (p - 1) + r + 1) \o " Do"
                  IN  /\ Cardinality(LinesEqual(cmds, paint)) = Cols
                      /\ \A c \in 0..(Cols - 1) :
                            SubSeq(cmds, 16 * r + 4 * c + 1, 16 * r + 4 * c + 4)
                                = <<"q",
                                    CellTransform(MarginLeftMm + c * (CellWidthMm + GapMm),
                                                  MarginTopMm + r * (CellHeightMm + GapMm)),
                                    paint,
                                    "Q">>

\* C21 witness: a full page is written; the copy of its last tile in the last
\* column stands 73 mm from the left and 104 mm from the top.
C21_Witness ==
    /\ pc = "done"
    /\ Len(pageLog) = 2
    /\ Len(pageLog[1].rows) = 4
    /\ SubSeq(Cmds(1), 61, 64)
           = <<"q", "48.1890 0 0 68.0315 206.9291 56.6929 cm", "/Im4 Do", "Q">>
    /\ SubSeq(Cmds(2), 1, 4)
           = <<"q", "48.1890 0 0 68.0315 28.3465 294.8031 cm", "/Im5 Do", "Q">>

\* How deep the instruction list is nested after its i-th line: the saves
\* less the restores among its first i lines.
DepthAfter(cmds, i) ==
    Cardinality({j \in 1..i : cmds[j] = "q"}) - Cardinality({j \in 1..i : cmds[j] = "Q"})

\* The last word of an instruction line: its operator.
OperatorOf(line) ==
    LET blanks == {j \in 1..Len(line) : SubSeq(line, j, j) = " "}
        last == IF blanks = {} THEN 0
                ELSE CHOOSE j \in blanks : \A i \in blanks : i <= j
    IN  SubSeq(line, last + 1, Len(line))

\* C22: in every page content stream, with guides on or off, saves (q) and
\* restores (Q) are balanced, the nesting depth never exceeds 1, and every
\* transform (cm), paint-image (Do), colour (RG), line-width (w) and stroke
\* (S) instruction lies inside a q..Q pair.
C22_SaveRestoreBalanced ==
    \A p \in 1..Len(pageLog) :
        LET cmds == Cmds(p)
        IN  /\ StreamIsCommands(p)
            /\ DepthAfter(cmds, Len(cmds)) = 0
            /\ \A i \in 1..Len(cmds) :
                  /\ DepthAfter(cmds, i) \in {0, 1}
                  /\ OperatorOf(cmds[i]) \in {"q", "Q", "cm", "Do", "RG", "w", "S"}
                  /\ OperatorOf(cmds[i]) \notin {"q", "Q"} =>
                        /\ DepthAfter(cmds, i - 1) = 1
                        /\ DepthAfter(cmds, i) = 1

\* C22 witness: a page of four tiles with guides is written: 16 placements
\* and two guide blocks, 18 saves and 18 restores, strokes among them.
C22_Witness ==
    /\ pc = "done"
    /\ showGuides
    /\ Len(Cmds(1)) = 75
    /\ Cardinality(LinesEqual(Cmds(1), "q")) = 18
    /\ Cardinality(LinesEqual(Cmds(1), "Q")) = 18
    /\ \E i \in 1..Len(Cmds(1)) : OperatorOf(Cmds(1)[i]) = "S"
    /\ \E i \in 1..Len(Cmds(1)) : OperatorOf(Cmds(1)[i]) = "Do"

-----------------------------------------------------------------------------
(* Claims about guides, under SpecGuides: the second run has guides on *)

\* Both runs wrote a document.
BothWritten == runNo = 2 /\ pc = "done" /\ firstRun.pc = "done"

\* The instruction lines of a list that stroke a path.
Strokes(cmds) == {i \in 1..Len(cmds) : OperatorOf(cmds[i]) = "S"}

\* A straight line from (x1, y1) to (x2, y2), stroked; 0 is written "0".
LineText(x1, y1, x2, y2) == x1 \o " " \o y1 \o " m " \o x2 \o " " \o y2 \o " l S"

\* What a page's instruction list holds beyond the list of the run without
\* guides.
GuideTail(p) ==
    SubSeq(Cmds(p), Len(firstRun.pageLog[p].commands) + 1, Len(Cmds(p)))

\* C23: for the same tile list, guides change nothing but the page content
\* streams: image ids, page ids, resource tables, every other object and the
\* placement instructions are the same; with guides on a page's instruction
\* list is the guides-off list followed by exactly one centerline block (a
\* vertical and a horizontal line through the page centre) and one frame
\* block; with guides off no page has a stroke instruction.
C23_GuidesOnlyAddBlocks ==
    /\ (runNo = 2 /\ firstRun.pc = "done") =>
          \A p \in 1..Len(pageLog) :
              LET before == firstRun.pageLog[p].commands
                  tail == GuideTail(p)
              IN  /\ SubSeq(Cmds(p), 1, Len(before)) = before
                  /\ Strokes(before) = {}
                  /\ pageLog[p].xObjectEntries = firstRun.pageLog[p].xObjectEntries
                  /\ pageLog[p].pageId = firstRun.pageLog[p].pageId
                  /\ pageLog[p].contentId = firstRun.pageLog[p].contentId
                  /\ Len(tail) = 11
                  /\ tail[1] = "q" /\ tail[6] = "Q" /\ tail[7] = "q" /\ tail[11] = "Q"
                  /\ {OperatorOf(tail[i]) : i \in {2, 8}} = {"RG"}
                  /\ {OperatorOf(tail[i]) : i \in {3, 9}} = {"w"}
                  /\ tail[4] = LineText(MmText(PageWidthMm \div 2), "0",
                                        MmText(PageWidthMm \div 2), MmText(PageHeightMm))
                  /\ tail[5] = LineText("0", MmText(PageHeightMm \div 2),
                                        MmText(PageWidthMm), MmText(PageHeightMm \div 2))
                  /\ Cardinality(Strokes(tail)) = 3
    /\ BothWritten =>
          /\ imageRefs = firstRun.imageRefs
          /\ pageIds = firstRun.pageIds
          /\ pagesId = firstRun.pagesId
          /\ catalogId = firstRun.catalogId
          /\ Len(pageLog) = Len(firstRun.pageLog)
          /\ Len(objects) = Len(firstRun.objects)
          /\ \A id \in 1..Len(objects) :
                \/ objects[id] = firstRun.objects[id]
                \/ \E p \in 1..Len(pageLog) : pageLog[p].contentId = id

\* C23 witness: five tiles, one with an opacity plane, written without and
\* then with guides: both pages end with the two guide blocks, the centre at
\* 50 mm by 74 mm.
C23_Witness ==
    /\ BothWritten
    /\ Len(tiles) = 5
    /\ HasKind("alpha")
    /\ Len(Cmds(1)) = 75 /\ Len(firstRun.pageLog[1].commands) = 64
    /\ Len(Cmds(2)) = 27 /\ Len(firstRun.pageLog[2].commands) = 16
    /\ GuideTail(2)[4] = "141.7323 0 m 141.7323 419.5276 l S"
    /\ GuideTail(2)[5] = "0 209.7638 m 283.4646 209.7638 l S"
    /\ objects[pageLog[1].contentId] # firstRun.objects[pageLog[1].contentId]

-----------------------------------------------------------------------------
(* Claims about the frame and the objects of createPdf, under SpecPdf *)

\* The closed path through the corners of a rectangle whose edges are given
\* in millimetres from the page's left and top, stroked.
FrameText(leftMm, topMm, rightMm, bottomMm) ==
    LET low == MmText(PageHeightMm - bottomMm)
        high == MmText(PageHeightMm - topMm)
    IN  MmText(leftMm) \o " " \o low \o " m " \o MmText(rightMm) \o " " \o low \o " l "
            \o MmText(rightMm) \o " " \o high \o " l " \o MmText(leftMm) \o " " \o high
            \o " l h S"

\* C24 as stated: with guides on, the frame of each page has the margins as
\* its left and top edges, the right edge of the 4th column as its right edge
\* and the bottom edge of the last row holding a tile on that page as its
\* bottom edge, also on a last page of fewer than 4 tiles.
C24_FrameAroundOccupiedRows ==
    showGuides =>
        \A p \in 1..Len(pageLog) :
            LET k == Len(pageLog[p].rows)
                cmds == Cmds(p)
            IN  /\ Len(cmds) = 16 * k + 11
                /\ cmds[16 * k + 10]
                       = FrameText(MarginLeftMm,
                                   MarginTopMm,
                                   MarginLeftMm + Cols * CellWidthMm + (Cols - 1) * GapMm,
                                   MarginTopMm + k * CellHeightMm + (k - 1) * GapMm)

\* The id of the object that was registered last before the objects of tile
\* i (0: none).
IdBeforeTile(i) == IF i = 1 THEN 0 ELSE imageRefs[i - 1].objectId

\* The id a dictionary names after key (0: the key is absent).
RefAfter(dict, key) ==
    LET at == FirstAt(dict, key, 1)
    IN  IF at = 0 THEN 0 ELSE ParseNat(DigitsFrom(dict, at + Len(key)))

\* C25: a tile whose image has an opacity plane registers the soft mask, a
\* DeviceGray stream of that plane, immediately before the RGB image
\* (mask id = image id - 1), and the RGB image dictionary has one /SMask entry
\* naming exactly that id; a tile without opacity plane registers exactly one
\* image object, whose dictionary has no /SMask entry.
C25_SoftMaskBeforeImage ==
    \A i \in 1..Len(imageRefs) :
        LET id == imageRefs[i].objectId
            dict == DictOf(id)
        IN  /\ FirstAt(dict, "/ColorSpace /DeviceRGB ", 1) > 0
            /\ IF ParsePngResult(disk[i]).hasAlpha
               THEN /\ id = IdBeforeTile(i) + 2
                    /\ (id - 1) \in streamIds
                    /\ FirstAt(DictOf(id - 1), "/ColorSpace /DeviceGray ", 1) > 0
                    /\ FirstAt(DictOf(id - 1), "/SMask", 1) = 0
                    /\ PayloadOf(id - 1) = ParsePngResult(disk[i]).alphaDeflated
                    /\ CountOf(dict, "/SMask ") = 1
                    /\ RefAfter(dict, "/SMask ") = id - 1
                    /\ TextAt(dict, Len(dict) - 7 - Len(NumStr(id - 1)),
                              NumStr(id - 1) \o " 0 R >>")
               ELSE /\ id = IdBeforeTile(i) + 1
                    /\ CountOf(dict, "/SMask") = 0

\* C25 witness: an image with an opacity plane between two without: its soft
\* mask is object 2, the image object 3; the third tile's image is object 4.
C25_Witness ==
    /\ pc = "done"
    /\ Len(tiles) >= 3
    /\ disk[1] = "opaque" /\ disk[2] = "alpha" /\ disk[3] = "opaque"
    /\ imageRefs[2].objectId = 3
    /\ RefAfter(DictOf(3), "/SMask ") = 2
    /\ imageRefs[3].objectId = 4

\* The page tree root as a reader expects it: the pages in page order.
PageTreeText ==
    "<< /Type /Pages /Kids ["
        \o Join([p \in 1..Len(pageLog) |-> NumStr(pageLog[p].pageId) \o " 0 R"], " ")
        \o "] /Count " \o NumStr(Len(pageLog)) \o " >>"

\* What holds of the page tree root in every state of createPdf.
PageTreeState ==
    /\ pc \in {"start", "main", "embed"} => pagesId = 0 /\ pageLog = <<>>
    /\ pc = "pages" =>
          /\ pagesId \in 1..Len(objects)
          /\ objects[pagesId] = "<< >>"
          /\ setLog = <<>>
    /\ \A p \in 1..Len(pageLog) :
          /\ pagesId # 0
          /\ pagesId < pageLog[p].contentId
          /\ pagesId < pageLog[p].pageId
          /\ RefAfter(objects[pageLog[p].pageId], "/Parent ") = pagesId
          /\ pageIds[p] = pageLog[p].pageId
    /\ PagesEmitted =>
          /\ Len(pageLog) = Len(tilePages)
          /\ setLog = <<pagesId, "<< >>", pagesId + 2 * Len(pageLog)>>
          /\ objects[pagesId] = PageTreeText
          /\ \A id \in 1..Len(objects) : objects[id] # "<< >>"
    /\ pc = "build" => output = ""
    /\ Serialized =>
          /\ CountOf(output, "<< >>") = 0
          /\ CountOf(output, "\n" \o NumStr(pagesId) \o " 0 obj\n" \o PageTreeText
                                  \o "\nendobj\n") = 1

\* The body of the reserved object changes only in the step that ends the
\* page loop, from the placeholder to the page tree.
PageTreeStep ==
    (pagesId # 0 /\ pagesId' = pagesId /\ objects'[pagesId] # objects[pagesId]) =>
        /\ pc = "pages" /\ pc' = "tree"
        /\ pageIdx > Len(tilePages)
        /\ objects[pagesId] = "<< >>"
        /\ setLog = <<>>

\* C26: the page tree root is reserved as a placeholder before any page
\* object is registered; every page names the reserved id as /Parent; the
\* placeholder is overwritten exactly once, after all pages were registered
\* and before build is called; serialized, the root lists in /Kids the ids
\* of all pages in page order, with /Count the number of pages, and no object
\* is serialized with the placeholder body.
C26_PageTreePlaceholder == []PageTreeState /\ [][PageTreeStep]_vars

\* C26 witness: a document of two pages is serialized, its page tree root,
\* object 7, overwritten after both pages were registered.
C26_Witness ==
    /\ pc = "built"
    /\ Len(pageLog) = 2
    /\ pagesId = 7
    /\ setLog = <<7, "<< >>", 11>>
    /\ objects[7] = "<< /Type /Pages /Kids [9 0 R 11 0 R] /Count 2 >>"
    /\ CountOf(output, "\n7 0 obj\n<< /Type /Pages /Kids [9 0 R 11 0 R] /Count 2 >>\n") = 1

-----------------------------------------------------------------------------
(* Claims about paethPredictor, under SpecPaeth *)

\* C27: paethPredictor(left, up, upLeft), with p = left + up - upLeft, returns
\* one of its three arguments, one whose absolute difference from p is
\* smallest: left when left is among the nearest, else up when up is among
\* the nearest, else upLeft; for all bytes 0..255.
C27_PaethNearestWithTies ==
    dstage = "paethDone" =>
        \A upLeft \in 0..255 :
            LET left == source.a
                up == source.b
                got == scanOut[upLeft + 1]
                p == left + up - upLeft
                dLeft == Abs(p - left)
                dUp == Abs(p - up)
                dUpLeft == Abs(p - upLeft)
                least == MinOf(dLeft, MinOf(dUp, dUpLeft))
            IN  /\ got \in {left, up, upLeft}
                /\ Abs(p - got) = least
                /\ dLeft = least => got = left
                /\ (dLeft > least /\ dUp = least) => got = up
                /\ (dLeft > least /\ dUp > least) => got = upLeft

\* C27 witness: left 0 and up 9.  With upper-left 3 up ties with upper-left
\* (3 and 3 against 6) and up is returned; with upper-left 6 left ties with
\* upper-left and left is returned; with upper-left 4 upper-left alone is
\* nearest and is returned.
C27_Witness ==
    /\ dstage = "paethDone"
    /\ source = [a |-> 0, b |-> 9]
    /\ scanOut[3 + 1] = 9
    /\ scanOut[6 + 1] = 0
    /\ scanOut[4 + 1] = 4

-----------------------------------------------------------------------------
(* Further claims about createPdf, under SpecPdf *)

\* The cells painted on page p: <<row, col>>, 0-based.
CellsOf(p) == (0..(Len(pageLog[p].rows) - 1)) \X (0..(Cols - 1))

\* The transform line of the cell <<row, col>> in the list of page p.
TransformLineOf(p, cell) == Cmds(p)[16 * cell[1] + 4 * cell[2] + 2]

\* Two cells share no inner point: one lies left of or below the other.
Apart(c1, c2) ==
    \/ CellX(c1[2]) + CellWidthPt <= CellX(c2[2])
    \/ CellX(c2[2]) + CellWidthPt <= CellX(c1[2])
    \/ CellY(c1[1]) + CellHeightPt <= CellY(c2[1])
    \/ CellY(c2[1]) + CellHeightPt <= CellY(c1[1])

\* C28: with the fixed layout every painted cell lies inside the page
\* rectangle, no two cells painted on a page overlap, and the cells of
\* adjacent columns and of adjacent rows are exactly the gap apart.
C28_CellsInsidePageAndApart ==
    \A p \in 1..Len(pageLog) :
        /\ FirstAt(objects[pageLog[p].pageId],
                   "/MediaBox [0 0 " \o ToFixed4(PageWidthPt) \o " "
                       \o ToFixed4(PageHeightPt) \o "]", 1) > 0
        /\ \A cell \in CellsOf(p) :
              /\ TransformLineOf(p, cell)
                     = ToFixed4(CellWidthPt) \o " 0 0 " \o ToFixed4(CellHeightPt) \o " "
                           \o ToFixed4(CellX(cell[2])) \o " " \o ToFixed4(CellY(cell[1]))
                           \o " cm"
              /\ 0 <= CellX(cell[2])
              /\ CellX(cell[2]) + CellWidthPt <= PageWidthPt
              /\ 0 <= CellY(cell[1])
              /\ CellY(cell[1]) + CellHeightPt <= PageHeightPt
              /\ cell[2] + 1 < Cols =>
                    CellX(cell[2] + 1) - (CellX(cell[2]) + CellWidthPt) = GapPt
              /\ <<cell[1] + 1, cell[2]>> \in CellsOf(p) =>
                    CellY(cell[1]) - (CellY(cell[1] + 1) + CellHeightPt) = GapPt
              /\ \A other \in CellsOf(p) : other # cell => Apart(cell, other)

\* C28 witness: a page of 16 cells is written; its last cell ends 10 mm from
\* the right edge of the page and 20 mm above its bottom edge.
C28_Witness ==
    /\ pc = "done"
    /\ Cardinality(CellsOf(1)) = 16
    /\ PageWidthPt - (CellX(3) + CellWidthPt) = MmToPt(10)
    /\ CellY(3) = MmToPt(20)
    /\ TransformLineOf(1, <<3, 3>>) = "48.1890 0 0 68.0315 206.9291 56.6929 cm"

-----------------------------------------------------------------------------
(* Claims about the calls a PdfBuilder receives, under SpecCalls *)

\* A step in which setObject is called: setLog notes the call.
SetObjectCalled == setLog' # setLog /\ setLog' # <<>>

\* What a setObject call changes and leaves alone.
SetObjectStep ==
    SetObjectCalled =>
        LET id == setLog'[1]
        IN  /\ id \in 1..regCount
            /\ regCount = Len(objects)
            /\ Len(objects') = Len(objects)
            /\ \A j \in 1..Len(objects) : j # id => objects'[j] = objects[j]
            /\ setLog'[2] = objects[id]
            /\ regCount' = regCount
            /\ lastId' = lastId
            /\ pc # "idle" =>
                  /\ id = pagesId
                  /\ objects'[id] # objects[id]
                  /\ \A p \in 1..Len(pageLog) : id # pageLog[p].pageId

\* What a registration call returns: the number of registrations so far plus
\* one, whatever setObject calls were made before it.
RegistrationStep ==
    regCount' # regCount =>
        /\ Len(objects') > Len(objects)
        /\ regCount' = Len(objects')
        /\ lastId' = Len(objects')
        /\ \A j \in 1..Len(objects) : objects'[j] = objects[j]

\* C29: setObject(id, body) on an id a registration call returned changes
\* only the body of that object: the number of registered objects, the
\* bodies of all other objects and the id the next registration call returns
\* stay; createPdf calls setObject only with an id that a registration
\* returned before, the reserved page tree root.
C29_SetObjectChangesOneBody == [][SetObjectStep /\ RegistrationStep]_vars

\* C29 witness: in a free-form run the first of two objects was overwritten
\* and a third object was registered after that, with id 3.
C29_Witness ==
    /\ pc = "idle"
    /\ setLog # <<>>
    /\ setLog[1] = 1
    /\ setLog[3] = 2
    /\ objects[1] # setLog[2]
    /\ regCount = 3
    /\ lastId = 3
    /\ Len(objects) = 3

-----------------------------------------------------------------------------
(* Claims about image names, under SpecPdf *)

\* The image names the paint-image instructions of page p use.
PaintedNames(p) ==
    {SubSeq(Cmds(p)[i], 2, Len(Cmds(p)[i]) - 3) :
        i \in {j \in 1..Len(Cmds(p)) : OperatorOf(Cmds(p)[j]) = "Do"}}

\* The resource table of page p, as its page object spells it: what stands
\* between "/XObject << " and " >> >>".
ResourceText(p) ==
    LET body == objects[pageLog[p].pageId]
        from == FirstAt(body, "/XObject << ", 1) + 12
    IN  SubSeq(body, from, FirstAt(body, " >> >>", from) - 1)

\* The keys of the resource table of page p.
ResourceKeys(p) ==
    LET text == ResourceText(p)
    IN  {"Im" \o DigitsFrom(text, at + 3) :
            at \in {j \in Occurrences(text, "/", 1) : TextAt(text, j - 1, "/Im")}}

\* The catalog tiles whose image is named by name.
TilesNamed(name) == {i \in 1..Len(imageRefs) : imageRefs[i].name = name}

\* C30: on every page the image names of the paint-image instructions are
\* the keys of the page's XObject resource table; each name maps to the
\* object id of the RGB image of its catalog tile, never to a soft mask;
\* the name of tile i belongs to tile i alone in the whole document.
C30_NamesMatchResources ==
    /\ \A i \in 1..Len(imageRefs) : TilesNamed(imageRefs[i].name) = {i}
    /\ \A p \in 1..Len(pageLog) :
          /\ StreamIsCommands(p)
          /\ PaintedNames(p) = ResourceKeys(p)
          /\ Cardinality(ResourceKeys(p)) = Len(pageLog[p].rows)
          /\ CountOf(ResourceText(p), " 0 R") = Len(pageLog[p].rows)
          /\ \A name \in ResourceKeys(p) :
                LET id == ResourceOf(objects[pageLog[p].pageId], name)
                IN  /\ \E r \in 1..Len(pageLog[p].rows) :
                          TilesNamed(name) = {4 * (p - 1) + r}
                    /\ \A i \in TilesNamed(name) :
                          /\ id = imageRefs[i].objectId
                          /\ PayloadOf(id) = ParsePngResult(disk[i]).rgbDeflated
                    /\ id \in streamIds
                    /\ FirstAt(DictOf(id), "/ColorSpace /DeviceRGB ", 1) > 0
                    /\ FirstAt(DictOf(id), "/DeviceGray", 1) = 0
          /\ \A q \in 1..Len(pageLog) :
                q # p => ResourceKeys(p) \cap ResourceKeys(q) = {}

\* C30 witness: five tiles with opacity planes on two pages: the first page
\* names Im1..Im4, bound to the objects 2, 4, 6 and 8, the second Im5, bound
\* to object 10; the soft masks are the odd objects before them.
C30_Witness ==
    /\ pc = "done"
    /\ Len(tiles) = 5
    /\ \A i \in 1..5 : disk[i] = "alpha"
    /\ PaintedNames(1) = {"Im1", "Im2", "Im3", "Im4"}
    /\ ResourceText(1) = "/Im1 2 0 R /Im2 4 0 R /Im3 6 0 R /Im4 8 0 R"
    /\ PaintedNames(2) = {"Im5"}
    /\ ResourceKeys(2) = {"Im5"}
    /\ ResourceText(2) = "/Im5 10 0 R"

====
